---- MODULE Spec2Model ----
(***************************************************************************)
(* Valuation engine of the equity-research backend: sector rules, growth   *)
(* smoothing, DCF and DDM formulas, their recalculation endpoints and the  *)
(* comps medians.                                                          *)
(*                                                                         *)
(* Numbers.  Python floats are modelled as decimal floating-point numbers  *)
(* [m |-> mantissa, e |-> exponent] of value m * 10^e, with a 7-digit      *)
(* mantissa (10^6 <= |m| < 10^7, or m = 0 and e = 0) and every operation   *)
(* rounded half-even, as IEEE arithmetic rounds every operation of the     *)
(* code.  The decimal literals of the code (0.005, 0.21, ...) are exact.   *)
(* Optional[float] None is the value None below.                           *)
(***************************************************************************)
EXTENDS Integers, Sequences, FiniteSets, TLC

\* ------------------------------------------------------------------------
\* Floating-point arithmetic (Python float)
\* ------------------------------------------------------------------------

MantMin == 10^6
MantLim == 10^7

Zero == [m |-> 0, e |-> 0]

None == [m |-> 0, e |-> 1]

IsNone(x) == x = None

Abs(n) == IF n < 0 THEN -n ELSE n

Sgn(n) == IF n < 0 THEN -1 ELSE IF n > 0 THEN 1 ELSE 0

NDigits(a) ==
    CASE a < 10 -> 1
      [] a < 100 -> 2
      [] a < 1000 -> 3
      [] a < 10000 -> 4
      [] a < 100000 -> 5
      [] a < 1000000 -> 6
      [] a < 10000000 -> 7
      [] a < 100000000 -> 8
      [] a < 1000000000 -> 9
      [] OTHER -> 10

\* a / 10^k rounded half-even; sticky: the exact magnitude lies just above a
RoundMag(a, k, sticky) ==
    IF k = 0 THEN a
    ELSE LET q == a \div (10^k)
             r == a % (10^k)
             half == 5 * 10^(k - 1)
         IN  IF r > half \/ (r = half /\ (sticky \/ (q % 2) = 1)) THEN q + 1 ELSE q

\* the float nearest to sign * mag * 10^e
NormS(sign, mag, e, sticky) ==
    LET Carry(q, k) ==
            IF q = MantLim
            THEN [m |-> sign * MantMin, e |-> e + k + 1]
            ELSE [m |-> sign * q, e |-> e + k]
        Place(nd) ==
            IF nd <= 7
            THEN [m |-> sign * mag * 10^(7 - nd), e |-> e - (7 - nd)]
            ELSE Carry(RoundMag(mag, nd - 7, sticky), nd - 7)
    IN  IF mag = 0 THEN Zero ELSE Place(NDigits(mag))

\* the literal n * 10^e, e.g. Dec(5, -3) for 0.005
Dec(n, e) == NormS(Sgn(n), Abs(n), e, FALSE)

FInt(n) == Dec(n, 0)

One == FInt(1)

FNeg(x) == [m |-> -x.m, e |-> x.e]

FAbs(x) == [m |-> Abs(x.m), e |-> x.e]

FLt(x, y) ==
    LET sx == Sgn(x.m)
        sy == Sgn(y.m)
    IN  IF sx # sy THEN sx < sy
        ELSE IF sx = 0 THEN FALSE
        ELSE IF sx = 1 THEN x.e < y.e \/ (x.e = y.e /\ x.m < y.m)
        ELSE x.e > y.e \/ (x.e = y.e /\ x.m < y.m)

FLe(x, y) == x = y \/ FLt(x, y)

FGt(x, y) == FLt(y, x)

FGe(x, y) == FLe(y, x)

\* Python max(a, b) and min(a, b): the first argument unless the second beats it
FMax(a, b) == IF FGt(b, a) THEN b ELSE a

FMin(a, b) == IF FLt(b, a) THEN b ELSE a

\* hi + lo for hi.e >= lo.e, both non-zero: lo is aligned to hi with two
\* guard digits, and sticky records that digits of lo were cut off
FAddOrdered(hi, lo) ==
    LET Sum(S, sticky) ==
            NormS(Sgn(S),
                  IF sticky /\ Sgn(lo.m) # Sgn(S) THEN Abs(S) - 1 ELSE Abs(S),
                  hi.e - 2, sticky)
        Align(d, Bfull) ==
            IF d >= 10 THEN Sum(hi.m * 100, TRUE)
            ELSE Sum(hi.m * 100 + Sgn(lo.m) * (Bfull \div (10^d)),
                     (Bfull % (10^d)) # 0)
    IN  Align(hi.e - lo.e, Abs(lo.m) * 100)

FAdd(x, y) ==
    IF x.m = 0 THEN y
    ELSE IF y.m = 0 THEN x
    ELSE IF x.e >= y.e THEN FAddOrdered(x, y) ELSE FAddOrdered(y, x)

FSub(x, y) == FAdd(x, FNeg(y))

\* x * y: the 14-digit product of the mantissas in two halves H and L of 8
\* and 8 digits, rounded to 7 digits
FMul(x, y) ==
    LET Round(sign, q, r, half, e) ==
            NormS(sign, IF r > half \/ (r = half /\ (q % 2) = 1) THEN q + 1 ELSE q,
                  e, FALSE)
        Halves(sign, H, L, e) ==
            IF H >= 100000
            THEN Round(sign, H * 10 + (L \div 10000000), L % 10000000, 5000000, e + 7)
            ELSE Round(sign, H * 100 + (L \div 1000000), L % 1000000, 500000, e + 6)
        Join(sign, hh, t, low, e) ==
            Halves(sign, hh + (t \div 10000), (t % 10000) * 10000 + (low % 10000), e)
        Parts(sign, a1, a0, b1, b0, e) ==
            Join(sign, a1 * b1, a1 * b0 + a0 * b1 + ((a0 * b0) \div 10000), a0 * b0, e)
        Mags(sign, a, b, e) ==
            Parts(sign, a \div 10000, a % 10000, b \div 10000, b % 10000, e)
    IN  IF x.m = 0 \/ y.m = 0 THEN Zero
        ELSE Mags(Sgn(x.m) * Sgn(y.m), Abs(x.m), Abs(y.m), x.e + y.e)

RECURSIVE LongDiv(_, _, _, _)
\* k more quotient digits of r / b: <<quotient, remainder>>
LongDiv(r, b, k, acc) ==
    IF k = 0 THEN <<acc, r>>
    ELSE LET d == r \div b
             rem == r % b
         IN  IF k = 1 THEN <<acc * 10 + d, rem>>
             ELSE LongDiv(rem * 10, b, k - 1, acc * 10 + d)

\* x / y for y # 0 (Python raises ZeroDivisionError for y = 0: see the callers)
FDiv(x, y) ==
    LET Quot(qr, b, sign, e) ==
            NormS(sign,
                  IF 2 * qr[2] > b \/ (2 * qr[2] = b /\ (qr[1] % 2) = 1)
                  THEN qr[1] + 1 ELSE qr[1],
                  e, FALSE)
        Mags(a, b, sign) ==
            IF a >= b THEN Quot(LongDiv(a, b, 7, 0), b, sign, x.e - y.e - 6)
            ELSE Quot(LongDiv(a * 10, b, 7, 0), b, sign, x.e - y.e - 7)
    IN  IF x.m = 0 THEN Zero
        ELSE Mags(Abs(x.m), Abs(y.m), Sgn(x.m) * Sgn(y.m))

RECURSIVE FPow(_, _)
\* x ** t for an integer t >= 0
FPow(x, t) == IF t = 0 THEN One ELSE FMul(FPow(x, t - 1), x)

\* Python round(x, k)
FRound(x, k) ==
    IF x.m = 0 \/ x.e >= -k THEN x
    ELSE LET drop == -k - x.e
         IN  IF drop >= 8 THEN Zero
             ELSE NormS(Sgn(x.m), RoundMag(Abs(x.m), drop, FALSE), -k, FALSE)

RECURSIVE FSum(_)
\* Python sum(seq) starting from 0, left to right
FSum(s) == IF Len(s) = 0 THEN Zero ELSE FAdd(FSum(SubSeq(s, 1, Len(s) - 1)), s[Len(s)])

\* ------------------------------------------------------------------------
\* Sector rules (industry_config.py)
\* ------------------------------------------------------------------------
\* A sector string is a sequence of characters; "emdash" is the character U+2014.

UpperCase == <<"A", "B", "C", "D", "E", "F", "G", "H", "I", "J", "K", "L", "M",
               "N", "O", "P", "Q", "R", "S", "T", "U", "V", "W", "X", "Y", "Z">>

LowerCase == <<"a", "b", "c", "d", "e", "f", "g", "h", "i", "j", "k", "l", "m",
               "n", "o", "p", "q", "r", "s", "t", "u", "v", "w", "x", "y", "z">>

LowerChar(c) ==
    IF \E i \in 1..26 : UpperCase[i] = c
    THEN LowerCase[CHOOSE i \in 1..26 : UpperCase[i] = c]
    ELSE c

\* str.lower()
Lower(s) == [i \in 1..Len(s) |-> LowerChar(s[i])]

\* k in s, for a non-empty k
Contains(s, k) == \E i \in 0..(Len(s) - Len(k)) : SubSeq(s, i + 1, i + Len(k)) = k

\* any(k in s for k in K)
AnyIn(s, K) == \E k \in K : Contains(s, k)

NoText == "None"

TECHNOLOGY ==
    [sector_label |-> "Technology",
     growth_recency_bias |-> Dec(20, -1),
     growth_cap |-> Dec(40, -2),
     growth_floor |-> Dec(5, -2),
     wacc_cap |-> Dec(14, -2),
     dcf_appropriate |-> TRUE,
     dcf_warning |-> NoText,
     analyst_guidance |-> "Focus on competitive moats, ..."]

ENERGY ==
    [sector_label |-> "Energy",
     growth_recency_bias |-> Dec(10, -1),
     growth_cap |-> Dec(30, -2),
     growth_floor |-> Dec(2, -2),
     wacc_cap |-> None,
     dcf_appropriate |-> TRUE,
     dcf_warning |-> "Energy companies are highly sensitive to commodity prices. ...",
     analyst_guidance |-> "Emphasise commodity price sensitivity, ..."]

FINANCIALS ==
    [sector_label |-> "Financial Services",
     growth_recency_bias |-> Dec(10, -1),
     growth_cap |-> Dec(25, -2),
     growth_floor |-> Dec(2, -2),
     wacc_cap |-> None,
     dcf_appropriate |-> FALSE,
     dcf_warning |-> "DCF valuation is not appropriate for financial companies. ...",
     analyst_guidance |-> "Focus on credit quality, ..."]

HEALTHCARE ==
    [sector_label |-> "Healthcare / Biotech",
     growth_recency_bias |-> Dec(10, -1),
     growth_cap |-> Dec(40, -2),
     growth_floor |-> Dec(3, -2),
     wacc_cap |-> None,
     dcf_appropriate |-> TRUE,
     dcf_warning |-> "Healthcare and biotech projections carry elevated uncertainty ...",
     analyst_guidance |-> "Emphasise drug pipeline risk, ..."]

CONSUMER_STAPLES ==
    [sector_label |-> "Consumer Staples / Retail",
     growth_recency_bias |-> Dec(10, -1),
     growth_cap |-> Dec(20, -2),
     growth_floor |-> Dec(2, -2),
     wacc_cap |-> None,
     dcf_appropriate |-> TRUE,
     dcf_warning |-> NoText,
     analyst_guidance |-> "Focus on pricing power relative to input cost inflation, ..."]

DEFAULT ==
    [sector_label |-> "General",
     growth_recency_bias |-> Dec(10, -1),
     growth_cap |-> Dec(40, -2),
     growth_floor |-> Dec(3, -2),
     wacc_cap |-> None,
     dcf_appropriate |-> TRUE,
     dcf_warning |-> NoText,
     analyst_guidance |-> "Provide a balanced assessment ..."]

AllSectorRules == {TECHNOLOGY, ENERGY, FINANCIALS, HEALTHCARE, CONSUMER_STAPLES, DEFAULT}

TechKeywords ==
    { <<"t", "e", "c", "h">>,
      <<"s", "o", "f", "t", "w", "a", "r", "e">>,
      <<"s", "e", "m", "i", "c", "o", "n", "d", "u", "c", "t", "o", "r">>,
      <<"i", "n", "f", "o", "r", "m", "a", "t", "i", "o", "n">> }

EnergyKeywords ==
    { <<"e", "n", "e", "r", "g", "y">>,
      <<"o", "i", "l">>,
      <<"g", "a", "s">>,
      <<"m", "i", "n", "i", "n", "g">> }

FinancialsKeywords ==
    { <<"f", "i", "n", "a", "n", "c", "i", "a", "l">>,
      <<"b", "a", "n", "k">>,
      <<"i", "n", "s", "u", "r", "a", "n", "c", "e">>,
      <<"a", "s", "s", "e", "t", " ", "m", "a", "n", "a", "g", "e", "m", "e", "n", "t">>,
      <<"b", "r", "o", "k", "e", "r", "a", "g", "e">> }

HealthcareKeywords ==
    { <<"h", "e", "a", "l", "t", "h">>,
      <<"b", "i", "o", "t", "e", "c", "h">>,
      <<"p", "h", "a", "r", "m", "a">>,
      <<"l", "i", "f", "e", " ", "s", "c", "i", "e", "n", "c", "e">>,
      <<"m", "e", "d", "i", "c", "a", "l">> }

ConsumerStaplesKeywords ==
    { <<"c", "o", "n", "s", "u", "m", "e", "r", " ", "s", "t", "a", "p", "l", "e">>,
      <<"c", "o", "n", "s", "u", "m", "e", "r", " ", "d", "e", "f", "e", "n", "s", "i", "v", "e">>,
      <<"f", "o", "o", "d">>,
      <<"b", "e", "v", "e", "r", "a", "g", "e">>,
      <<"h", "o", "u", "s", "e", "h", "o", "l", "d">>,
      <<"r", "e", "t", "a", "i", "l">> }

get_sector_rules_no_lower(sector) ==
    LET s == sector
    IN  IF AnyIn(s, TechKeywords) THEN TECHNOLOGY
        ELSE IF AnyIn(s, EnergyKeywords) THEN ENERGY
        ELSE IF AnyIn(s, FinancialsKeywords) THEN FINANCIALS
        ELSE IF AnyIn(s, HealthcareKeywords) THEN HEALTHCARE
        ELSE IF AnyIn(s, ConsumerStaplesKeywords) THEN CONSUMER_STAPLES
        ELSE DEFAULT

get_sector_rules(sector) ==
    LET s == Lower(sector)
    IN  IF AnyIn(s, TechKeywords) THEN TECHNOLOGY
        ELSE IF AnyIn(s, EnergyKeywords) THEN ENERGY
        ELSE IF AnyIn(s, FinancialsKeywords) THEN FINANCIALS
        ELSE IF AnyIn(s, HealthcareKeywords) THEN HEALTHCARE
        ELSE IF AnyIn(s, ConsumerStaplesKeywords) THEN CONSUMER_STAPLES
        ELSE DEFAULT

\* Sector strings given to the resolver: up to MaxWords words joined by spaces
MaxWords == 2

SoftwareApplication == <<"S", "o", "f", "t", "w", "a", "r", "e", "emdash", "A", "p", "p", "l", "i", "c", "a", "t", "i", "o", "n">>

Biotech == <<"B", "i", "o", "t", "e", "c", "h">>

SectorWords ==
    { SoftwareApplication,
      Biotech,
      <<"T", "E", "C", "H", "N", "O", "L", "O", "G", "Y">>,
      <<"O", "i", "l">>,
      <<"B", "a", "n", "k">>,
      <<"M", "e", "d", "i", "c", "a", "l">>,
      <<"F", "o", "o", "d">>,
      <<"U", "t", "i", "l", "i", "t", "i", "e", "s">>,
      <<"I", "n", "f", "o", "r", "m", "a", "t", "i", "o", "n">>,
      <<"R", "e", "t", "a", "i", "l">>,
      <<"H", "e", "a", "l", "t", "h", "c", "a", "r", "e">>,
      <<"E", "n", "e", "r", "g", "y">> }

RECURSIVE SectorLabels(_)
SectorLabels(k) ==
    IF k = 0 THEN {<<>>}
    ELSE SectorWords \cup {l \o <<" ">> \o w : l \in SectorLabels(k - 1) \ {<<>>}, w \in SectorWords}

\* ------------------------------------------------------------------------
\* Recency-weighted growth (dcf.py)
\* ------------------------------------------------------------------------

GrowthWeights_bias_on_oldest(n, bias) ==
    [i \in 1..n |-> IF i = n /\ bias # One THEN FMul(FInt(n - (i - 1)), bias)
                    ELSE FInt(n - (i - 1))]

\* the weights list of dcf._weighted_growth for n values, newest first
GrowthWeights(n, bias) ==
    [i \in 1..n |-> IF i = 1 /\ bias # One THEN FMul(FInt(n - (i - 1)), bias)
                    ELSE FInt(n - (i - 1))]

dcf_weighted_growth_no_cap(values, sector_rules) ==
    IF Len(values) = 0 THEN sector_rules.growth_floor
    ELSE LET n == Len(values)
             weights == GrowthWeights(n, sector_rules.growth_recency_bias)
             total_w == FSum(weights)
             raw == FDiv(FSum([i \in 1..n |-> FMul(weights[i], values[i])]), total_w)
         IN  FMax(sector_rules.growth_floor, raw)

\* dcf._weighted_growth
dcf_weighted_growth(values, sector_rules) ==
    IF Len(values) = 0 THEN sector_rules.growth_floor
    ELSE LET n == Len(values)
             weights == GrowthWeights(n, sector_rules.growth_recency_bias)
             total_w == FSum(weights)
             raw == FDiv(FSum([i \in 1..n |-> FMul(weights[i], values[i])]), total_w)
         IN  FMax(sector_rules.growth_floor, FMin(sector_rules.growth_cap, raw))

\* Growth-rate sequences given to the aggregator: up to MaxGrowths rates
MaxGrowths == 3

GrowthRates == {Dec(-20, -2), Zero, Dec(4, -2), Dec(10, -2), Dec(60, -2)}

GrowthSeqs == UNION {[1..k -> GrowthRates] : k \in 0..MaxGrowths}

\* ------------------------------------------------------------------------
\* Dividend discount model (ddm.py)
\* ------------------------------------------------------------------------

ACTUALS_YEARS == 5

Reverse(s) == [i \in 1..Len(s) |-> s[Len(s) + 1 - i]]

ddm_weighted_growth_oldest_heaviest(rates) ==
    IF Len(rates) = 0 THEN Zero
    ELSE LET n == Len(rates)
             weights == [i \in 1..n |-> FInt(i)]
             total_w == FSum(weights)
         IN  FDiv(FSum([i \in 1..n |-> FMul(weights[i], rates[i])]), total_w)

\* ddm._weighted_growth
ddm_weighted_growth(rates) ==
    IF Len(rates) = 0 THEN Zero
    ELSE LET n == Len(rates)
             weights == [i \in 1..n |-> FInt(n - (i - 1))]
             total_w == FSum(weights)
         IN  FDiv(FSum([i \in 1..n |-> FMul(weights[i], rates[i])]), total_w)

compute_ggm_unguarded(d1, cost_of_equity, g) ==
    LET denom == FSub(cost_of_equity, g)
    IN  IF denom = Zero \/ FLe(d1, Zero)
        THEN [value |-> Zero, divisors |-> <<>>]
        ELSE [value |-> FDiv(d1, denom), divisors |-> <<denom>>]

\* ddm._compute_ggm; divisors lists the denominators of the divisions performed
compute_ggm(d1, cost_of_equity, g) ==
    LET denom == FSub(cost_of_equity, g)
    IN  IF FLe(denom, Zero) \/ FLe(d1, Zero)
        THEN [value |-> Zero, divisors |-> <<>>]
        ELSE [value |-> FDiv(d1, denom), divisors |-> <<denom>>]

RECURSIVE two_stage_loop(_, _, _, _)
\* div and pv_stage1 of ddm._compute_two_stage after t passes of its loop
two_stage_loop(latest_dps, g1, re, t) ==
    LET Discount(prev, div) ==
            [div |-> div,
             pv_stage1 |-> FAdd(prev.pv_stage1, FDiv(div, FPow(FAdd(One, re), t)))]
        Grow(prev) == Discount(prev, FMul(prev.div, FAdd(One, g1)))
    IN  IF t <= 0 THEN [div |-> latest_dps, pv_stage1 |-> Zero]
        ELSE Grow(two_stage_loop(latest_dps, g1, re, t - 1))

\* ddm._compute_two_stage, for n >= 0; the division by (1 + re) ** t raises
\* ZeroDivisionError when re = -1
compute_two_stage(latest_dps, g1, n, g2, re) ==
    LET Sum(pv_stage1, pv_terminal) ==
            [raised |-> "None", pv_stage1 |-> pv_stage1, pv_terminal |-> pv_terminal,
             intrinsic_value |-> FAdd(pv_stage1, pv_terminal)]
        Terminal(pv_stage1, d_terminal, denom) ==
            IF FLe(denom, Zero)
            THEN [raised |-> "None", pv_stage1 |-> pv_stage1, pv_terminal |-> Zero,
                  intrinsic_value |-> pv_stage1]
            ELSE Sum(pv_stage1, FDiv(FDiv(d_terminal, denom), FPow(FAdd(One, re), n)))
        AfterLoop(loop) ==
            Terminal(loop.pv_stage1, FMul(loop.div, FAdd(One, g2)), FSub(re, g2))
    IN  IF n >= 1 /\ FAdd(One, re) = Zero
        THEN [raised |-> "ZeroDivisionError"]
        ELSE AfterLoop(two_stage_loop(latest_dps, g1, re, n))

\* float(x or 0) for a field that may be missing
OrZero(x) == IF x = None THEN Zero ELSE x

\* round(x, k) if x is not None else None
RoundOpt(x, k) == IF x = None THEN None ELSE FRound(x, k)

RECURSIVE SortedSeq(_)
\* sorted(S) for a set of integers
SortedSeq(S) ==
    IF S = {} THEN <<>>
    ELSE LET lo == CHOOSE x \in S : \A y \in S : x <= y
         IN  <<lo>> \o SortedSeq(S \ {lo})

\* a dividend record counts when it has a date and a positive amount
CountedDividends(dividends_raw) ==
    SelectSeq(dividends_raw, LAMBDA d : d.year # 0 /\ FGt(OrZero(d.amount), Zero))

\* fetch_ddm step 2: year -> total DPS, summed in the order of the records
yearly_divs(dividends_raw) ==
    LET counted == CountedDividends(dividends_raw)
        years == {counted[i].year : i \in 1..Len(counted)}
    IN  [y \in years |->
            LET of_year == SelectSeq(counted, LAMBDA d : d.year = y)
            IN  FSum([i \in 1..Len(of_year) |-> of_year[i].amount])]

\* fetch_ddm: year -> diluted EPS; a later statement of the same year overwrites
eps_by_year(income_stmts) ==
    LET years == {income_stmts[i].year : i \in 1..Len(income_stmts)}
    IN  [y \in years |->
            LET last == CHOOSE i \in 1..Len(income_stmts) :
                            /\ income_stmts[i].year = y
                            /\ \A j \in (i + 1)..Len(income_stmts) : income_stmts[j].year # y
            IN  OrZero(income_stmts[last].epsDiluted)]

ddm_history_negative_eps(divs, eps_of) ==
    LET all_years == SortedSeq(DOMAIN divs)
        sorted_years == IF Len(all_years) > ACTUALS_YEARS + 1
                        THEN SubSeq(all_years, Len(all_years) - ACTUALS_YEARS, Len(all_years))
                        ELSE all_years
        Year(yr, dps, eps, prev_dps) ==
            [year |-> yr,
             annual_dps |-> FRound(dps, 4),
             payout_ratio |-> RoundOpt(IF eps # None /\ eps # Zero
                                       THEN FDiv(dps, eps) ELSE None, 4),
             dps_growth |-> RoundOpt(IF prev_dps # None /\ FGt(prev_dps, Zero)
                                     THEN FDiv(FSub(dps, prev_dps), prev_dps) ELSE None, 4)]
    IN  [i \in 1..Len(sorted_years) |->
            Year(sorted_years[i],
                 divs[sorted_years[i]],
                 IF sorted_years[i] \in DOMAIN eps_of THEN eps_of[sorted_years[i]] ELSE None,
                 IF i > 1 THEN divs[sorted_years[i - 1]] ELSE None)]

\* fetch_ddm step 4: the DividendYear list, oldest first
ddm_history(divs, eps_of) ==
    LET all_years == SortedSeq(DOMAIN divs)
        sorted_years == IF Len(all_years) > ACTUALS_YEARS + 1
                        THEN SubSeq(all_years, Len(all_years) - ACTUALS_YEARS, Len(all_years))
                        ELSE all_years
        Year(yr, dps, eps, prev_dps) ==
            [year |-> yr,
             annual_dps |-> FRound(dps, 4),
             payout_ratio |-> RoundOpt(IF eps # None /\ eps # Zero /\ FGt(eps, Zero)
                                       THEN FDiv(dps, eps) ELSE None, 4),
             dps_growth |-> RoundOpt(IF prev_dps # None /\ FGt(prev_dps, Zero)
                                     THEN FDiv(FSub(dps, prev_dps), prev_dps) ELSE None, 4)]
    IN  [i \in 1..Len(sorted_years) |->
            Year(sorted_years[i],
                 divs[sorted_years[i]],
                 IF sorted_years[i] \in DOMAIN eps_of THEN eps_of[sorted_years[i]] ELSE None,
                 IF i > 1 THEN divs[sorted_years[i - 1]] ELSE None)]

DEFAULT_BETA == One

\* the beta of fetch_ddm: profile beta, else quote beta, else default
select_beta(sector_info, quote) ==
    LET profile_beta == IF sector_info.present THEN sector_info.beta ELSE Zero
        quote_beta == OrZero(quote.beta)
        raw_beta == IF FGt(profile_beta, Zero) THEN profile_beta ELSE quote_beta
    IN  IF FGt(raw_beta, Zero) THEN raw_beta ELSE DEFAULT_BETA

\* fetch_ddm step 6: the stable growth rate of the Gordon Growth Model
ggm_growth_rate(w_growth, cost_of_equity) ==
    FMax(FMin(w_growth, FSub(cost_of_equity, Dec(5, -3))), Zero)

ts_terminal_growth_rate_unclamped(cost_of_equity) ==
    FMax(Dec(3, -2), Zero)

\* fetch_ddm step 7: the terminal growth rate of the Two-Stage model
ts_terminal_growth_rate(cost_of_equity) ==
    FMax(FMin(Dec(3, -2), FSub(cost_of_equity, Dec(1, -2))), Zero)

\* (x - price) / price * 100 where both are positive, else 0.0
upside_if_positive(iv, price) ==
    IF FGt(price, Zero) /\ FGt(iv, Zero)
    THEN FMul(FDiv(FSub(iv, price), price), FInt(100))
    ELSE Zero

\* fetch_ddm steps 5-7 and the result, for a dividend payer.  The local
\* operators are the steps of the code, last step first; v holds the values
\* of the code's variables computed so far.
ddm_valuation(current_price, risk_free_rate, equity_risk_premium, beta, cost_of_equity, history) ==
    LET latest_dps == history[Len(history)].annual_dps
        with_growth == SelectSeq(history, LAMBDA h : h.dps_growth # None)
        growth_rates == [i \in 1..Len(with_growth) |-> with_growth[i].dps_growth]
        growth_rates_clean ==
            SelectSeq(growth_rates, LAMBDA g : FLe(Dec(-50, -2), g) /\ FLe(g, Dec(100, -2)))
        with_payout == SelectSeq(history, LAMBDA h : h.payout_ratio # None)
        payout_ratios == [i \in 1..Len(with_payout) |-> with_payout[i].payout_ratio]
        Result(v) ==
            IF v.ts.raised # "None" THEN [raised |-> v.ts.raised]
            ELSE [raised |-> "None",
                  current_price |-> FRound(current_price, 2),
                  pays_dividends |-> TRUE,
                  risk_free_rate |-> FRound(risk_free_rate, 4),
                  equity_risk_premium |-> FRound(equity_risk_premium, 4),
                  beta |-> FRound(beta, 4),
                  cost_of_equity |-> FRound(cost_of_equity, 4),
                  history |-> history,
                  latest_annual_dps |-> FRound(latest_dps, 4),
                  avg_dps_growth |-> FRound(v.avg_growth, 4),
                  weighted_dps_growth |-> FRound(v.w_growth, 4),
                  avg_payout_ratio |-> FRound(v.avg_payout, 4),
                  current_yield |-> FRound(v.current_yield, 4),
                  ggm_growth_rate |-> FRound(v.ggm_g, 4),
                  ggm_d1 |-> FRound(v.ggm_d1, 4),
                  ggm_intrinsic_value |-> FRound(v.ggm_iv, 2),
                  ggm_upside_downside |->
                      FRound(upside_if_positive(v.ggm_iv, current_price), 1),
                  ts_high_growth_rate |-> FRound(v.ts_g1, 4),
                  ts_high_growth_years |-> v.ts_n,
                  ts_terminal_growth_rate |-> FRound(v.ts_g2, 4),
                  ts_intrinsic_value |-> FRound(v.ts.intrinsic_value, 2),
                  ts_pv_stage1 |-> FRound(v.ts.pv_stage1, 2),
                  ts_pv_terminal |-> FRound(v.ts.pv_terminal, 2),
                  ts_upside_downside |->
                      FRound(upside_if_positive(v.ts.intrinsic_value, current_price), 1)]
        \* step 7
        TwoStage(v) ==
            Result(v @@ [ts |-> compute_two_stage(latest_dps, v.ts_g1, v.ts_n, v.ts_g2,
                                                  cost_of_equity)])
        TwoStageRates(v) ==
            TwoStage(v @@ [ts_g1 |-> FMax(Dec(-10, -2), FMin(Dec(25, -2), v.w_growth)),
                           ts_n |-> 5,
                           ts_g2 |-> ts_terminal_growth_rate(cost_of_equity)])
        \* step 6
        GordonValue(v) ==
            TwoStageRates(v @@ [ggm_iv |-> compute_ggm(v.ggm_d1, cost_of_equity, v.ggm_g).value])
        GordonDividend(v) ==
            GordonValue(v @@ [ggm_d1 |-> FMul(latest_dps, FAdd(One, v.ggm_g))])
        GordonGrowth(v) ==
            GordonDividend(v @@ [ggm_g |-> ggm_growth_rate(v.w_growth, cost_of_equity)])
        \* step 5
    IN  GordonGrowth(
            [avg_growth |-> IF Len(growth_rates_clean) > 0
                            THEN FDiv(FSum(growth_rates_clean), FInt(Len(growth_rates_clean)))
                            ELSE Dec(2, -2),
             w_growth |-> IF Len(growth_rates_clean) > 0
                          THEN ddm_weighted_growth(Reverse(growth_rates_clean))
                          ELSE Dec(2, -2),
             avg_payout |-> IF Len(payout_ratios) > 0
                            THEN FDiv(FSum(payout_ratios), FInt(Len(payout_ratios)))
                            ELSE Zero,
             current_yield |-> IF FGt(current_price, Zero)
                               THEN FDiv(latest_dps, current_price) ELSE Zero])

ddm_non_payer_default_growth(current_price, risk_free_rate, equity_risk_premium, beta, cost_of_equity) ==
    [raised |-> "None",
     current_price |-> FRound(current_price, 2),
     pays_dividends |-> FALSE,
     risk_free_rate |-> FRound(risk_free_rate, 4),
     equity_risk_premium |-> FRound(equity_risk_premium, 4),
     beta |-> FRound(beta, 4),
     cost_of_equity |-> FRound(cost_of_equity, 4),
     history |-> <<>>,
     latest_annual_dps |-> Zero,
     avg_dps_growth |-> Dec(2, -2),
     weighted_dps_growth |-> Zero,
     avg_payout_ratio |-> Zero,
     current_yield |-> Zero,
     ggm_growth_rate |-> Zero,
     ggm_d1 |-> Zero,
     ggm_intrinsic_value |-> Zero,
     ggm_upside_downside |-> Zero,
     ts_high_growth_rate |-> Zero,
     ts_high_growth_years |-> 5,
     ts_terminal_growth_rate |-> Zero,
     ts_intrinsic_value |-> Zero,
     ts_pv_stage1 |-> Zero,
     ts_pv_terminal |-> Zero,
     ts_upside_downside |-> Zero]

\* the DDMResult of a company that pays no dividends
ddm_non_payer(current_price, risk_free_rate, equity_risk_premium, beta, cost_of_equity) ==
    [raised |-> "None",
     current_price |-> FRound(current_price, 2),
     pays_dividends |-> FALSE,
     risk_free_rate |-> FRound(risk_free_rate, 4),
     equity_risk_premium |-> FRound(equity_risk_premium, 4),
     beta |-> FRound(beta, 4),
     cost_of_equity |-> FRound(cost_of_equity, 4),
     history |-> <<>>,
     latest_annual_dps |-> Zero,
     avg_dps_growth |-> Zero,
     weighted_dps_growth |-> Zero,
     avg_payout_ratio |-> Zero,
     current_yield |-> Zero,
     ggm_growth_rate |-> Zero,
     ggm_d1 |-> Zero,
     ggm_intrinsic_value |-> Zero,
     ggm_upside_downside |-> Zero,
     ts_high_growth_rate |-> Zero,
     ts_high_growth_years |-> 5,
     ts_terminal_growth_rate |-> Zero,
     ts_intrinsic_value |-> Zero,
     ts_pv_stage1 |-> Zero,
     ts_pv_terminal |-> Zero,
     ts_upside_downside |-> Zero]

\* fetch_ddm from step 4 on: the early return for a company without dividend
\* records, else the history, the growth analysis and the two valuations
fetch_ddm_from_step_4(current_price, risk_free_rate, equity_risk_premium, beta, cost_of_equity, divs, eps_of) ==
    IF DOMAIN divs = {}
    THEN ddm_non_payer(current_price, risk_free_rate, equity_risk_premium, beta,
                       cost_of_equity)
    ELSE ddm_valuation(current_price, risk_free_rate, equity_risk_premium, beta,
                       cost_of_equity, ddm_history(divs, eps_of))

\* fetch_ddm from step 3 on: the CAPM cost of equity is Rf + beta * ERP
fetch_ddm_from_step_3(current_price, risk_free_rate, equity_risk_premium, beta, divs, eps_of) ==
    fetch_ddm_from_step_4(current_price, risk_free_rate, equity_risk_premium, beta,
                          FAdd(risk_free_rate, FMul(beta, equity_risk_premium)),
                          divs, eps_of)

fetch_ddm_surfacing_dividend_failure(up) ==
    LET quote == up.quotes.quote
        current_price == OrZero(quote.price)
        dividends_raw == IF up.dividends.status = "ok" THEN up.dividends.records ELSE <<>>
        income_stmts == IF up.income.status = "ok" THEN up.income.stmts ELSE <<>>
    IN  IF ~up.api_key THEN [raised |-> "EnvironmentError"]
        ELSE IF up.quotes.status = "HTTPError" THEN [raised |-> "HTTPError"]
        ELSE IF up.quotes.status = "empty" THEN [raised |-> "ValueError"]
        ELSE IF FLe(current_price, Zero) THEN [raised |-> "ValueError"]
        ELSE IF up.dividends.status # "ok" THEN [raised |-> "HTTPError"]
        ELSE IF up.income.status = "HTTPError" THEN [raised |-> "HTTPError"]
        ELSE fetch_ddm_from_step_3(current_price, up.risk_free_rate,
                                   up.equity_risk_premium,
                                   select_beta(up.sector_info, quote),
                                   yearly_divs(dividends_raw), eps_by_year(income_stmts))

\* fetch_ddm; up holds what the upstream requests answer
fetch_ddm(up) ==
    LET quote == up.quotes.quote
        current_price == OrZero(quote.price)
        dividends_raw == IF up.dividends.status = "ok" THEN up.dividends.records ELSE <<>>
        income_stmts == IF up.income.status = "ok" THEN up.income.stmts ELSE <<>>
    IN  IF ~up.api_key THEN [raised |-> "EnvironmentError"]
        ELSE IF up.quotes.status = "HTTPError" THEN [raised |-> "HTTPError"]
        ELSE IF up.quotes.status = "empty" THEN [raised |-> "ValueError"]
        ELSE IF FLe(current_price, Zero) THEN [raised |-> "ValueError"]
        ELSE IF up.income.status = "HTTPError" THEN [raised |-> "HTTPError"]
        ELSE fetch_ddm_from_step_3(current_price, up.risk_free_rate,
                                   up.equity_risk_premium,
                                   select_beta(up.sector_info, quote),
                                   yearly_divs(dividends_raw), eps_by_year(income_stmts))

\* ------------------------------------------------------------------------
\* Recalculation endpoints (main.py)
\* ------------------------------------------------------------------------

RECURSIVE recalc_ddm_loop(_, _, _, _)
\* div and pv_stage1 of recalculate_ddm after t passes of its loop
recalc_ddm_loop(dps, g1, re, t) ==
    LET Discount(prev, div) ==
            [div |-> div,
             pv_stage1 |-> FAdd(prev.pv_stage1, FDiv(div, FPow(FAdd(One, re), t)))]
        Grow(prev) == Discount(prev, FMul(prev.div, FAdd(One, g1)))
    IN  IF t <= 0 THEN [div |-> dps, pv_stage1 |-> Zero]
        ELSE Grow(recalc_ddm_loop(dps, g1, re, t - 1))

recalc_ddm_ggm_d1_without_growth(r) ==
    LET re == r.cost_of_equity
        dps == r.latest_annual_dps
        price == r.current_price
        ggm_g == r.ggm_growth_rate
        Upside(ggm_d1, denom, valid, ggm_iv, priced) ==
            [ggm_d1 |-> ggm_d1, ggm_iv |-> ggm_iv,
             ggm_upside |-> IF priced
                            THEN FMul(FDiv(FSub(ggm_iv, price), price), FInt(100))
                            ELSE Zero,
             divisors |-> (IF valid THEN <<denom>> ELSE <<>>)
                          \o (IF priced THEN <<price>> ELSE <<>>)]
        Priced(ggm_d1, denom, valid, ggm_iv) ==
            Upside(ggm_d1, denom, valid, ggm_iv, FGt(price, Zero) /\ FGt(ggm_iv, Zero))
        Value(ggm_d1, denom, valid) ==
            Priced(ggm_d1, denom, valid, IF valid THEN FDiv(ggm_d1, denom) ELSE Zero)
        Guard(ggm_d1, denom) ==
            Value(ggm_d1, denom, FGt(denom, Zero) /\ FGt(ggm_d1, Zero))
    IN  Guard(dps, FSub(re, ggm_g))

\* the Gordon Growth section of recalculate_ddm; divisors lists the
\* denominators of the divisions performed.  The local operators are the
\* statements of the code, last statement first.
recalc_ddm_ggm(r) ==
    LET re == r.cost_of_equity
        dps == r.latest_annual_dps
        price == r.current_price
        ggm_g == r.ggm_growth_rate
        Upside(ggm_d1, denom, valid, ggm_iv, priced) ==
            [ggm_d1 |-> ggm_d1, ggm_iv |-> ggm_iv,
             ggm_upside |-> IF priced
                            THEN FMul(FDiv(FSub(ggm_iv, price), price), FInt(100))
                            ELSE Zero,
             divisors |-> (IF valid THEN <<denom>> ELSE <<>>)
                          \o (IF priced THEN <<price>> ELSE <<>>)]
        Priced(ggm_d1, denom, valid, ggm_iv) ==
            Upside(ggm_d1, denom, valid, ggm_iv, FGt(price, Zero) /\ FGt(ggm_iv, Zero))
        Value(ggm_d1, denom, valid) ==
            Priced(ggm_d1, denom, valid, IF valid THEN FDiv(ggm_d1, denom) ELSE Zero)
        Guard(ggm_d1, denom) ==
            Value(ggm_d1, denom, FGt(denom, Zero) /\ FGt(ggm_d1, Zero))
    IN  Guard(FMul(dps, FAdd(One, ggm_g)), FSub(re, ggm_g))

\* the Two-Stage section of recalculate_ddm, for n >= 0
recalc_ddm_two_stage(r) ==
    LET re == r.cost_of_equity
        dps == r.latest_annual_dps
        g1 == r.ts_high_growth_rate
        n == r.ts_high_growth_years
        g2 == r.ts_terminal_growth_rate
        Sum(pv_stage1, pv_terminal) ==
            [raised |-> "None", pv_stage1 |-> pv_stage1, pv_terminal |-> pv_terminal,
             ts_iv |-> FAdd(pv_stage1, pv_terminal)]
        Terminal(pv_stage1, d_terminal, denom2) ==
            Sum(pv_stage1, IF FGt(denom2, Zero)
                           THEN FDiv(FDiv(d_terminal, denom2), FPow(FAdd(One, re), n))
                           ELSE Zero)
        AfterLoop(loop) ==
            Terminal(loop.pv_stage1, FMul(loop.div, FAdd(One, g2)), FSub(re, g2))
    IN  IF n >= 1 /\ FAdd(One, re) = Zero
        THEN [raised |-> "ZeroDivisionError"]
        ELSE AfterLoop(recalc_ddm_loop(dps, g1, re, n))

\* POST /ddm/recalculate: the response, or the 500 of an unhandled exception
recalculate_ddm(r) ==
    LET price == r.current_price
        Response(ggm, ts) ==
            IF ts.raised # "None"
            THEN [status |-> 500, raised |-> ts.raised, ggm_divisors |-> ggm.divisors]
            ELSE [status |-> 200,
                  ggm_d1 |-> FRound(ggm.ggm_d1, 4),
                  ggm_intrinsic_value |-> FRound(ggm.ggm_iv, 2),
                  ggm_upside_downside |-> FRound(ggm.ggm_upside, 1),
                  ts_intrinsic_value |-> FRound(ts.ts_iv, 2),
                  ts_pv_stage1 |-> FRound(ts.pv_stage1, 2),
                  ts_pv_terminal |-> FRound(ts.pv_terminal, 2),
                  ts_upside_downside |->
                      FRound(IF FGt(price, Zero) /\ FGt(ts.ts_iv, Zero)
                             THEN FMul(FDiv(FSub(ts.ts_iv, price), price), FInt(100))
                             ELSE Zero, 1),
                  ggm_divisors |-> ggm.divisors]
    IN  Response(recalc_ddm_ggm(r), recalc_ddm_two_stage(r))

\* ------------------------------------------------------------------------
\* DCF projections (backend/dcf.py) and POST /dcf/recalculate (main.py)
\* ------------------------------------------------------------------------

PROJECTION_YEARS == 5

initial_projection_year_tax_benefit(prev, a, t) ==
    LET Discount(rev, net_income, shares, fcf) ==
            [prev_rev |-> rev, prev_shares |-> shares,
             pv_fcfs |-> FAdd(prev.pv_fcfs,
                              FDiv(fcf, FPow(FAdd(One, a.cost_of_equity), t))),
             last_net_income |-> net_income]
        CashFlow(rev, net_income) ==
            Discount(rev, net_income,
                     FMul(prev.prev_shares, FAdd(One, a.shares_growth)),
                     FSub(FAdd(net_income, FMul(rev, a.da_pct)), FMul(rev, a.capex_pct)))
        Tax(rev, pretax) ==
            CashFlow(rev, FSub(pretax, FMul(pretax, a.tax_rate)))
        Income(rev) == Tax(rev, FSub(FMul(rev, a.op_margin), a.interest_expense))
    IN  Income(FMul(prev.prev_rev, FAdd(One, a.revenue_growth)))

\* one pass, for year t, of the loop of dcf._compute_initial_projections;
\* a holds the function's arguments.  The local operators are the statements
\* of the loop body, last statement first.
initial_projection_year(prev, a, t) ==
    LET Discount(rev, net_income, shares, fcf) ==
            [prev_rev |-> rev, prev_shares |-> shares,
             pv_fcfs |-> FAdd(prev.pv_fcfs,
                              FDiv(fcf, FPow(FAdd(One, a.cost_of_equity), t))),
             last_net_income |-> net_income]
        CashFlow(rev, net_income) ==
            Discount(rev, net_income,
                     FMul(prev.prev_shares, FAdd(One, a.shares_growth)),
                     FSub(FAdd(net_income, FMul(rev, a.da_pct)), FMul(rev, a.capex_pct)))
        Tax(rev, pretax) ==
            CashFlow(rev, FSub(pretax, IF FGt(pretax, Zero)
                                       THEN FMul(pretax, a.tax_rate) ELSE Zero))
        Income(rev) == Tax(rev, FSub(FMul(rev, a.op_margin), a.interest_expense))
    IN  Income(FMul(prev.prev_rev, FAdd(One, a.revenue_growth)))

RECURSIVE initial_projections_loop(_, _)
\* the loop variables of dcf._compute_initial_projections after year t
initial_projections_loop(a, t) ==
    IF t <= 0
    THEN [prev_rev |-> a.base_revenue, prev_shares |-> a.base_diluted_shares,
          pv_fcfs |-> Zero, last_net_income |-> Zero]
    ELSE initial_projection_year(initial_projections_loop(a, t - 1), a, t)

compute_initial_projections_undiscounted_terminal(base_revenue, base_diluted_shares, interest_expense, revenue_growth, op_margin, tax_rate, capex_pct, da_pct, shares_growth, exit_pe, cost_of_equity) ==
    LET a == [base_revenue |-> base_revenue,
              base_diluted_shares |-> base_diluted_shares,
              interest_expense |-> interest_expense,
              revenue_growth |-> revenue_growth, op_margin |-> op_margin,
              tax_rate |-> tax_rate, capex_pct |-> capex_pct, da_pct |-> da_pct,
              shares_growth |-> shares_growth, cost_of_equity |-> cost_of_equity]
        PerShare(pv_fcfs, pv_tv, equity_value) ==
            [raised |-> "None", pv_fcfs |-> pv_fcfs, pv_tv |-> pv_tv,
             equity_value |-> equity_value,
             iv |-> IF FGt(base_diluted_shares, Zero)
                    THEN FDiv(equity_value, base_diluted_shares) ELSE Zero]
        Equity(pv_fcfs, pv_tv) == PerShare(pv_fcfs, pv_tv, FAdd(pv_fcfs, pv_tv))
        Terminal(loop) ==
            Equity(loop.pv_fcfs,
                   FMul(loop.last_net_income, exit_pe))
    IN  IF FAdd(One, cost_of_equity) = Zero
        THEN [raised |-> "ZeroDivisionError"]
        ELSE Terminal(initial_projections_loop(a, PROJECTION_YEARS))

\* dcf._compute_initial_projections: (pv_fcfs, pv_tv, equity_value, iv),
\* unrounded; the division by (1 + cost_of_equity) ** t raises
\* ZeroDivisionError when cost_of_equity = -1
compute_initial_projections(base_revenue, base_diluted_shares, interest_expense, revenue_growth, op_margin, tax_rate, capex_pct, da_pct, shares_growth, exit_pe, cost_of_equity) ==
    LET a == [base_revenue |-> base_revenue,
              base_diluted_shares |-> base_diluted_shares,
              interest_expense |-> interest_expense,
              revenue_growth |-> revenue_growth, op_margin |-> op_margin,
              tax_rate |-> tax_rate, capex_pct |-> capex_pct, da_pct |-> da_pct,
              shares_growth |-> shares_growth, cost_of_equity |-> cost_of_equity]
        PerShare(pv_fcfs, pv_tv, equity_value) ==
            [raised |-> "None", pv_fcfs |-> pv_fcfs, pv_tv |-> pv_tv,
             equity_value |-> equity_value,
             iv |-> IF FGt(base_diluted_shares, Zero)
                    THEN FDiv(equity_value, base_diluted_shares) ELSE Zero]
        Equity(pv_fcfs, pv_tv) == PerShare(pv_fcfs, pv_tv, FAdd(pv_fcfs, pv_tv))
        Terminal(loop) ==
            Equity(loop.pv_fcfs,
                   FDiv(FMul(loop.last_net_income, exit_pe),
                        FPow(FAdd(One, cost_of_equity), PROJECTION_YEARS)))
    IN  IF FAdd(One, cost_of_equity) = Zero
        THEN [raised |-> "ZeroDivisionError"]
        ELSE Terminal(initial_projections_loop(a, PROJECTION_YEARS))

\* the six per-year arrays of RecalculateRequest, in the order they are
\* validated
list_fields(r) ==
    << <<"growth_rates", r.growth_rates>>, <<"op_margins", r.op_margins>>,
       <<"tax_rates", r.tax_rates>>, <<"capex_pcts", r.capex_pcts>>,
       <<"da_pcts", r.da_pcts>>, <<"shares_growths", r.shares_growths>> >>

recalc_dcf_first_short(r) ==
    LET n == PROJECTION_YEARS
        fields == list_fields(r)
        bad == {i \in 1..Len(fields) : Len(fields[i][2]) < n}
    IN  IF bad = {} THEN 0 ELSE CHOOSE i \in bad : \A j \in bad : i <= j

\* the validation loop of recalculate_dcf: the index of the first array whose
\* length is not PROJECTION_YEARS, 0 when there is none
recalc_dcf_first_invalid(r) ==
    LET n == PROJECTION_YEARS
        fields == list_fields(r)
        bad == {i \in 1..Len(fields) : Len(fields[i][2]) # n}
    IN  IF bad = {} THEN 0 ELSE CHOOSE i \in bad : \A j \in bad : i <= j

recalc_dcf_year_discounted_late(prev, r, i) ==
    LET Discount(revenue, net_income, shares, fcf) ==
            [prev_revenue |-> revenue, prev_shares |-> shares,
             pv_fcfs |-> FAdd(prev.pv_fcfs,
                              FDiv(fcf, FPow(FAdd(One, r.cost_of_equity), i + 2))),
             last_net_income |-> net_income]
        CashFlow(revenue, net_income) ==
            Discount(revenue, net_income,
                     FMul(prev.prev_shares, FAdd(One, r.shares_growths[i + 1])),
                     FSub(FAdd(net_income, FMul(revenue, r.da_pcts[i + 1])),
                          FMul(revenue, r.capex_pcts[i + 1])))
        Tax(revenue, pretax) ==
            CashFlow(revenue, FSub(pretax, IF FGt(pretax, Zero)
                                           THEN FMul(pretax, r.tax_rates[i + 1])
                                           ELSE Zero))
        Income(revenue) ==
            Tax(revenue, FSub(FMul(revenue, r.op_margins[i + 1]), r.interest_expense))
    IN  Income(FMul(prev.prev_revenue, FAdd(One, r.growth_rates[i + 1])))

\* one pass of the loop of recalculate_dcf, for index i of range(n); the
\* arrays are indexed from 0 in the code and from 1 here.  The local
\* operators are the statements of the loop body, last statement first.
recalc_dcf_year(prev, r, i) ==
    LET Discount(revenue, net_income, shares, fcf) ==
            [prev_revenue |-> revenue, prev_shares |-> shares,
             pv_fcfs |-> FAdd(prev.pv_fcfs,
                              FDiv(fcf, FPow(FAdd(One, r.cost_of_equity), i + 1))),
             last_net_income |-> net_income]
        CashFlow(revenue, net_income) ==
            Discount(revenue, net_income,
                     FMul(prev.prev_shares, FAdd(One, r.shares_growths[i + 1])),
                     FSub(FAdd(net_income, FMul(revenue, r.da_pcts[i + 1])),
                          FMul(revenue, r.capex_pcts[i + 1])))
        Tax(revenue, pretax) ==
            CashFlow(revenue, FSub(pretax, IF FGt(pretax, Zero)
                                           THEN FMul(pretax, r.tax_rates[i + 1])
                                           ELSE Zero))
        Income(revenue) ==
            Tax(revenue, FSub(FMul(revenue, r.op_margins[i + 1]), r.interest_expense))
    IN  Income(FMul(prev.prev_revenue, FAdd(One, r.growth_rates[i + 1])))

RECURSIVE recalc_dcf_loop(_, _)
\* the loop variables of recalculate_dcf after k passes
recalc_dcf_loop(r, k) ==
    IF k <= 0
    THEN [prev_revenue |-> r.base_revenue, prev_shares |-> r.base_diluted_shares,
          pv_fcfs |-> Zero, last_net_income |-> Zero]
    ELSE recalc_dcf_year(recalc_dcf_loop(r, k - 1), r, k - 1)

\* POST /dcf/recalculate: 422 naming the first array of the wrong length, the
\* 500 of an unhandled ZeroDivisionError, or the rounded response
recalculate_dcf(r) ==
    LET n == PROJECTION_YEARS
        invalid == recalc_dcf_first_invalid(r)
        price == r.current_price
        Response(pv_fcfs, pv_tv, equity_value, intrinsic_value) ==
            [status |-> 200,
             intrinsic_value |-> FRound(intrinsic_value, 2),
             upside_downside |->
                 FRound(IF FGt(price, Zero)
                        THEN FMul(FDiv(FSub(intrinsic_value, price), price), FInt(100))
                        ELSE Zero, 1),
             pv_fcfs |-> FRound(pv_fcfs, 0),
             pv_terminal_value |-> FRound(pv_tv, 0),
             equity_value |-> FRound(equity_value, 0)]
        PerShare(pv_fcfs, pv_tv, equity_value) ==
            Response(pv_fcfs, pv_tv, equity_value,
                     IF FGt(r.base_diluted_shares, Zero)
                     THEN FDiv(equity_value, r.base_diluted_shares) ELSE Zero)
        Equity(pv_fcfs, pv_tv) == PerShare(pv_fcfs, pv_tv, FAdd(pv_fcfs, pv_tv))
        Terminal(loop) ==
            Equity(loop.pv_fcfs,
                   FDiv(FMul(loop.last_net_income, r.exit_pe_multiple),
                        FPow(FAdd(One, r.cost_of_equity), n)))
    IN  IF invalid # 0
        THEN [status |-> 422,
              detail |-> [name |-> list_fields(r)[invalid][1], n |-> n,
                          got |-> Len(list_fields(r)[invalid][2])]]
        ELSE IF FAdd(One, r.cost_of_equity) = Zero
        THEN [status |-> 500, raised |-> "ZeroDivisionError"]
        ELSE Terminal(recalc_dcf_loop(r, n))

\* ------------------------------------------------------------------------
\* Macro rates (backend/market_data.py, backend/cache.py)
\* ------------------------------------------------------------------------

\* the time-to-live of the macro-rate cache, in seconds
_CACHE_TTL == 86400

FALLBACK_RISK_FREE_RATE == Dec(43, -3)

FALLBACK_ERP == Dec(55, -3)

\* the (value, source) pair a macro-rate function returns
Rate(value, source) == [value |-> value, source |-> source]

\* the keys of the macro-rate cache
MacroKeys == {"risk_free_rate", "equity_risk_premium"}

\* self._store.get(key) of a key that is not stored
NoEntry == [present |-> FALSE, value |-> Zero, source |-> "", ts |-> 0, ttl |-> 0]

\* TTLCache(default_ttl=_CACHE_TTL) after construction
EmptyStore == [key \in MacroKeys |-> NoEntry]

\* the expiry test of TTLCache.get_with_source
entry_expired(entry, time) == time - entry.ts > entry.ttl

\* del self._store[key]
store_delete(store, key) ==
    [k \in MacroKeys |-> IF k = key THEN NoEntry ELSE store[k]]

\* TTLCache.set_with_source with the default ttl, called at the given time
set_with_source(store, key, value, source, time) ==
    [k \in MacroKeys |->
        IF k = key
        THEN [present |-> TRUE, value |-> value, source |-> source, ts |-> time,
              ttl |-> _CACHE_TTL]
        ELSE store[k]]

\* the try block of get_risk_free_rate: the newest valid DGS10 observation
\* (in percent) as a decimal, None when the request fails or has no valid
\* observation.  answer.observations is oldest first, None for a "." cell.
fetched_risk_free_rate(answer) ==
    LET valid == SelectSeq(answer.observations, LAMBDA o : o # None)
    IN  IF answer.status # "ok" THEN None
        ELSE IF Len(valid) = 0 THEN None
        ELSE FDiv(valid[Len(valid)], Dec(100, 0))

\* the try block of get_equity_risk_premium: the last table cell with a
\* number in the range 1-20 (percent) as a decimal, None when the request
\* fails or no cell qualifies.  answer.cells are the numeric cells.
fetched_equity_risk_premium(answer) ==
    LET candidates ==
            SelectSeq(answer.cells, LAMBDA c : FLe(One, c) /\ FLe(c, Dec(20, 0)))
    IN  IF answer.status # "ok" THEN None
        ELSE IF Len(candidates) = 0 THEN None
        ELSE FDiv(candidates[Len(candidates)], Dec(100, 0))

\* the value fetched for a key
fetched_rate(key, answer) ==
    IF key = "risk_free_rate" THEN fetched_risk_free_rate(answer)
    ELSE fetched_equity_risk_premium(answer)

\* the source label of a live value
live_source(key) ==
    IF key = "risk_free_rate" THEN "FRED DGS10 (live)" ELSE "Damodaran implied ERP (live)"

\* the pair returned when the fetch fails
fallback_rate(key) ==
    IF key = "risk_free_rate" THEN Rate(FALLBACK_RISK_FREE_RATE, "config fallback")
    ELSE Rate(FALLBACK_ERP, "config fallback")

\* ------------------------------------------------------------------------
\* fetch_dcf (backend/dcf.py)
\* ------------------------------------------------------------------------

\* the SectorInfo of industry_classifier.py; sector_info is None where present
\* is FALSE
NoSectorInfo ==
    [present |-> FALSE, sector |-> <<>>, industry |-> <<>>, beta |-> Zero,
     company_name |-> ""]

SectorInfo(sector, industry, beta, company_name) ==
    [present |-> TRUE, sector |-> sector, industry |-> industry, beta |-> beta,
     company_name |-> company_name]

TAX_RATE == Dec(21, -2)

DEFAULT_EXIT_PE == Dec(20, 0)

\* float(a or b or 0)
OrElseZero(a, b) == IF a # None /\ a # Zero THEN a ELSE OrZero(b)

\* fetch_dcf step 4: the YearData of one aligned triple of statements
dcf_year_data(stmt, cf, bs) ==
    [year |-> stmt.year,
     revenue |-> OrZero(stmt.revenue),
     operating_income |-> OrZero(stmt.operatingIncome),
     interest_expense |-> FAbs(OrZero(stmt.interestExpense)),
     pretax_income |-> OrZero(stmt.incomeBeforeTax),
     tax_expense |-> FAbs(OrZero(stmt.incomeTaxExpense)),
     net_income |-> OrZero(stmt.netIncome),
     diluted_shares |-> OrZero(stmt.weightedAverageShsOutDil),
     eps |-> OrZero(stmt.epsDiluted),
     capex |-> FAbs(OrZero(cf.capitalExpenditure)),
     da |-> OrZero(cf.depreciationAndAmortization),
     fcf |-> FSub(FAdd(OrZero(stmt.netIncome), OrZero(cf.depreciationAndAmortization)),
                  FAbs(OrZero(cf.capitalExpenditure))),
     revenue_growth |-> None,
     shares_growth |-> None,
     cash |-> OrElseZero(bs.cashAndCashEquivalents, bs.cashAndShortTermInvestments),
     long_term_debt |-> OrZero(bs.longTermDebt),
     short_term_debt |-> OrZero(bs.shortTermDebt),
     net_debt |-> FSub(FAdd(OrZero(bs.longTermDebt), OrZero(bs.shortTermDebt)),
                       OrElseZero(bs.cashAndCashEquivalents,
                                  bs.cashAndShortTermInvestments))]

\* fetch_dcf step 4: the actuals, oldest first, with the y/y growth rates
\* filled in; the statements arrive newest first
dcf_actuals(income_stmts, cash_flows, balance_sheets, n) ==
    LET Growth(curr, prev) ==
            IF FGt(prev, Zero) THEN FDiv(FSub(curr, prev), prev) ELSE None
        Fill(actuals) ==
            [i \in 1..n |->
                IF i = 1 THEN actuals[1]
                ELSE [actuals[i] EXCEPT
                        !.revenue_growth =
                            Growth(actuals[i].revenue, actuals[i - 1].revenue),
                        !.shares_growth =
                            Growth(actuals[i].diluted_shares,
                                   actuals[i - 1].diluted_shares)]]
    IN  Fill([i \in 1..n |->
                 dcf_year_data(income_stmts[n + 1 - i], cash_flows[n + 1 - i],
                               balance_sheets[n + 1 - i])])

\* min(a, b) for integers
MinInt(a, b) == IF a < b THEN a ELSE b

dcf_base_tax_rate_uncapped(last) ==
    IF FGt(last.pretax_income, Zero) /\ FGe(last.tax_expense, Zero)
    THEN FDiv(last.tax_expense, last.pretax_income)
    ELSE TAX_RATE

\* fetch_dcf step 5: the tax rate of the last actual year, at most 50%, or the
\* statutory rate
dcf_base_tax_rate(last) ==
    IF FGt(last.pretax_income, Zero) /\ FGe(last.tax_expense, Zero)
    THEN FMin(Dec(50, -2), FDiv(last.tax_expense, last.pretax_income))
    ELSE TAX_RATE

\* fetch_dcf step 5: the base assumptions, from the actuals
dcf_base_assumptions(current_price, market_cap_quote, sector_rules, actuals) ==
    LET last == actuals[Len(actuals)]
        with_rev == SelectSeq(actuals, LAMBDA a : a.revenue_growth # None)
        with_shr == SelectSeq(actuals, LAMBDA a : a.shares_growth # None)
        shr_growths == [i \in 1..Len(with_shr) |-> with_shr[i].shares_growth]
    IN  [base_revenue_growth |->
             dcf_weighted_growth(
                 Reverse([i \in 1..Len(with_rev) |-> with_rev[i].revenue_growth]),
                 sector_rules),
         base_op_margin |-> IF FGt(last.revenue, Zero)
                            THEN FDiv(last.operating_income, last.revenue)
                            ELSE Dec(15, -2),
         base_tax_rate |-> dcf_base_tax_rate(last),
         base_capex_pct |-> IF FGt(last.revenue, Zero)
                            THEN FDiv(last.capex, last.revenue) ELSE Dec(5, -2),
         base_da_pct |-> IF FGt(last.revenue, Zero)
                         THEN FDiv(last.da, last.revenue) ELSE Dec(3, -2),
         base_shares_growth |->
             FMax(Dec(-15, -2),
                  FMin(Dec(15, -2),
                       IF Len(shr_growths) > 0
                       THEN FDiv(FSum(shr_growths), FInt(Len(shr_growths)))
                       ELSE Zero)),
         base_diluted_shares |-> IF FGt(last.diluted_shares, Zero)
                                 THEN last.diluted_shares
                                 ELSE FDiv(market_cap_quote, current_price)]

\* fetch_dcf steps 5 and 6 and the result.  The local operators are the steps
\* of the code, last step first; v holds the values of the code's variables
\* computed so far.
dcf_valuation(current_price, market_cap_quote, risk_free_rate, equity_risk_premium, beta, cost_of_equity, sector_rules, actuals) ==
    LET last == actuals[Len(actuals)]
        Result(v, upside_downside) ==
            [raised |-> "None",
             current_price |-> FRound(current_price, 2),
             intrinsic_value |-> FRound(v.p.iv, 2),
             upside_downside |-> FRound(upside_downside, 1),
             risk_free_rate |-> FRound(risk_free_rate, 4),
             equity_risk_premium |-> FRound(equity_risk_premium, 4),
             beta |-> FRound(beta, 4),
             cost_of_equity |-> FRound(cost_of_equity, 4),
             actuals |-> actuals,
             base_revenue_growth |-> FRound(v.base_revenue_growth, 4),
             base_op_margin |-> FRound(v.base_op_margin, 4),
             base_interest_expense |-> FRound(last.interest_expense, 0),
             base_tax_rate |-> FRound(v.base_tax_rate, 4),
             base_capex_pct |-> FRound(v.base_capex_pct, 4),
             base_da_pct |-> FRound(v.base_da_pct, 4),
             base_shares_growth |-> FRound(v.base_shares_growth, 4),
             exit_pe_multiple |-> DEFAULT_EXIT_PE,
             base_diluted_shares |-> FRound(v.base_diluted_shares, 0),
             pv_fcfs |-> FRound(v.p.pv_fcfs, 0),
             pv_terminal_value |-> FRound(v.p.pv_tv, 0),
             equity_value |-> FRound(v.p.equity_value, 0)]
        Upside(v) ==
            IF v.p.raised # "None" THEN [raised |-> v.p.raised]
            ELSE Result(v, IF FGt(current_price, Zero)
                           THEN FMul(FDiv(FSub(v.p.iv, current_price), current_price),
                                     FInt(100))
                           ELSE Zero)
        \* step 6
        Projections(v) ==
            Upside(v @@ [p |-> compute_initial_projections(
                                   last.revenue, v.base_diluted_shares,
                                   last.interest_expense, v.base_revenue_growth,
                                   v.base_op_margin, v.base_tax_rate, v.base_capex_pct,
                                   v.base_da_pct, v.base_shares_growth,
                                   DEFAULT_EXIT_PE, cost_of_equity)])
    IN  Projections(dcf_base_assumptions(current_price, market_cap_quote,
                                         sector_rules, actuals))

\* the first of the four requests of fetch_dcf step 1 that fails, as the
\* exception _fetch raises, or "None"
dcf_fetch_failure(up) ==
    LET answers == <<up.income, up.cash_flow, up.balance, up.quotes>>
        failed == {i \in 1..4 : answers[i].status # "ok"}
        first == CHOOSE i \in failed : \A j \in failed : i <= j
    IN  IF failed = {} THEN "None"
        ELSE IF answers[first].status = "HTTPError" THEN "HTTPError"
        ELSE "ValueError"

fetch_dcf_from_step_4_single_year(up, current_price, market_cap_quote, risk_free_rate, equity_risk_premium, beta, cost_of_equity) ==
    LET sector_label == IF up.sector_info.present THEN up.sector_info.sector ELSE <<>>
        n == MinInt(Len(up.income.stmts),
                    MinInt(Len(up.cash_flow.stmts), Len(up.balance.stmts)))
    IN  IF n < 1 THEN [raised |-> "ValueError"]
        ELSE dcf_valuation(current_price, market_cap_quote, risk_free_rate,
                           equity_risk_premium, beta, cost_of_equity,
                           get_sector_rules(sector_label),
                           dcf_actuals(up.income.stmts, up.cash_flow.stmts,
                                       up.balance.stmts, n))

\* fetch_dcf from step 4 on: the aligned actuals, the assumptions, the
\* valuation and the result
fetch_dcf_from_step_4(up, current_price, market_cap_quote, risk_free_rate, equity_risk_premium, beta, cost_of_equity) ==
    LET sector_label == IF up.sector_info.present THEN up.sector_info.sector ELSE <<>>
        n == MinInt(Len(up.income.stmts),
                    MinInt(Len(up.cash_flow.stmts), Len(up.balance.stmts)))
    IN  IF n < 2 THEN [raised |-> "ValueError"]
        ELSE dcf_valuation(current_price, market_cap_quote, risk_free_rate,
                           equity_risk_premium, beta, cost_of_equity,
                           get_sector_rules(sector_label),
                           dcf_actuals(up.income.stmts, up.cash_flow.stmts,
                                       up.balance.stmts, n))

dcf_select_beta_quote_first(sector_info, quote) ==
    LET profile_beta == IF sector_info.present THEN sector_info.beta ELSE Zero
        quote_beta == OrZero(quote.beta)
        raw_beta == IF FGt(quote_beta, Zero) THEN quote_beta ELSE profile_beta
    IN  IF FGt(raw_beta, Zero) THEN raw_beta ELSE DEFAULT_BETA

\* the beta of fetch_dcf (step 2): profile beta, else quote beta, else default
dcf_select_beta(sector_info, quote) ==
    LET profile_beta == IF sector_info.present THEN sector_info.beta ELSE Zero
        quote_beta == OrZero(quote.beta)
        raw_beta == IF FGt(profile_beta, Zero) THEN profile_beta ELSE quote_beta
    IN  IF FGt(raw_beta, Zero) THEN raw_beta ELSE DEFAULT_BETA

\* fetch_dcf from step 3 on: the CAPM discount rate is Rf + beta * ERP
fetch_dcf_from_step_3(up, current_price, market_cap_quote, risk_free_rate, equity_risk_premium, beta) ==
    fetch_dcf_from_step_4(up, current_price, market_cap_quote, risk_free_rate,
                          equity_risk_premium, beta,
                          FAdd(risk_free_rate, FMul(beta, equity_risk_premium)))

\* dcf.fetch_dcf; up holds what the upstream requests and the macro-rate
\* lookups answer
fetch_dcf(up) ==
    LET quote == up.quotes.quote
        current_price == OrZero(quote.price)
        market_cap_quote == OrZero(quote.marketCap)
    IN  IF ~up.api_key THEN [raised |-> "EnvironmentError"]
        ELSE IF dcf_fetch_failure(up) # "None" THEN [raised |-> dcf_fetch_failure(up)]
        ELSE IF FLe(current_price, Zero) THEN [raised |-> "ValueError"]
        ELSE IF FLe(market_cap_quote, Zero) THEN [raised |-> "ValueError"]
        ELSE fetch_dcf_from_step_3(up, current_price, market_cap_quote,
                                   up.risk_free_rate.value, up.equity_risk_premium.value,
                                   dcf_select_beta(up.sector_info, quote))

\* ------------------------------------------------------------------------
\* Comparable companies (backend/comps.py)
\* ------------------------------------------------------------------------

MAX_PEERS == 8

UpperChar(c) ==
    IF \E i \in 1..26 : LowerCase[i] = c
    THEN UpperCase[CHOOSE i \in 1..26 : LowerCase[i] = c]
    ELSE c

\* str.upper()
Upper(s) == [i \in 1..Len(s) |-> UpperChar(s[i])]

\* str.strip(), for strings whose only whitespace is the space
Strip(s) ==
    LET kept == {i \in 1..Len(s) : s[i] # " "}
    IN  IF kept = {} THEN <<>>
        ELSE SubSeq(s, CHOOSE i \in kept : \A j \in kept : i <= j,
                       CHOOSE i \in kept : \A j \in kept : i >= j)

\* str.replace(c, "") for each character c of chars
Without(s, chars) == SelectSeq(s, LAMBDA c : c \notin chars)

DigitChars == <<"0", "1", "2", "3", "4", "5", "6", "7", "8", "9">>

IsDigit(c) == \E i \in 1..10 : DigitChars[i] = c

DigitValue(c) == (CHOOSE i \in 1..10 : DigitChars[i] = c) - 1

RECURSIVE DigitsValue(_)
\* the number written by a string of digits
DigitsValue(s) ==
    IF s = <<>> THEN Zero
    ELSE FAdd(FMul(DigitsValue(SubSeq(s, 1, Len(s) - 1)), FInt(10)),
              FInt(DigitValue(s[Len(s)])))

\* float(s) for plain decimal notation: an optional sign, digits and at most
\* one point; ok is FALSE where float() raises ValueError
ParseFloatText(s) ==
    LET t == Strip(s)
        signed == t # <<>> /\ t[1] \in {"+", "-"}
        body == IF signed THEN Tail(t) ELSE t
        points == {i \in 1..Len(body) : body[i] = "."}
        digits == SelectSeq(body, IsDigit)
        wellformed == /\ Cardinality(points) <= 1
                      /\ digits # <<>>
                      /\ \A i \in 1..Len(body) : IsDigit(body[i]) \/ body[i] = "."
        decimals == IF points = {} THEN 0
                    ELSE Len(body) - (CHOOSE i \in points : TRUE)
        Signed(magnitude) ==
            [ok |-> TRUE,
             value |-> IF signed /\ t[1] = "-" THEN FNeg(magnitude) ELSE magnitude]
    IN  IF wellformed
        THEN Signed(FDiv(DigitsValue(digits), FPow(FInt(10), decimals)))
        ELSE [ok |-> FALSE, value |-> Zero]

\* dict.get(k): whether the key is there, and its text
DictGet(d, k) ==
    IF k \in DOMAIN d THEN [some |-> TRUE, text |-> d[k]]
    ELSE [some |-> FALSE, text |-> <<>>]

NotAvailable == {<<"-">>, <<>>, <<"N", "/", "A">>}

\* comps._parse_float
parse_float(value) ==
    LET s == IF value.some THEN Strip(value.text) ELSE <<>>
        Bounded(f) ==
            IF ~f.ok THEN None
            ELSE IF FLt(FAbs(f.value), Dec(1, 12)) THEN f.value ELSE None
    IN  IF ~value.some THEN None
        ELSE IF s \in NotAvailable THEN None
        ELSE Bounded(ParseFloatText(Without(s, {"%", ",", "$"})))

\* comps._parse_market_cap
parse_market_cap(value) ==
    LET s == IF value.some THEN Without(Strip(value.text), {","}) ELSE <<>>
        last == IF s = <<>> THEN "" ELSE s[Len(s)]
        scaled == last \in {"T", "B", "M", "K"}
        scale == CASE last = "T" -> Dec(1, 12)
                   [] last = "B" -> Dec(1, 9)
                   [] last = "M" -> Dec(1, 6)
                   [] last = "K" -> Dec(1, 3)
                   [] OTHER -> One
        Scaled(f) ==
            IF ~f.ok THEN Zero
            ELSE IF scaled THEN FMul(f.value, scale) ELSE f.value
    IN  IF ~value.some THEN Zero
        ELSE IF s \in NotAvailable THEN Zero
        ELSE Scaled(ParseFloatText(IF scaled THEN SubSeq(s, 1, Len(s) - 1) ELSE s))

\* comps._pct_to_decimal
pct_to_decimal(value) ==
    LET s == IF value.some THEN Strip(value.text) ELSE <<>>
        Percent(f) == IF ~f.ok THEN None ELSE FDiv(f.value, FInt(100))
    IN  IF ~value.some THEN None
        ELSE IF s \in NotAvailable THEN None
        ELSE Percent(ParseFloatText(Without(s, {"%", ","})))

median_keeps_non_positive(values) ==
    LET Middle(clean, n, mid) ==
            IF clean = <<>> THEN None
            ELSE IF n % 2 = 0 THEN FDiv(FAdd(clean[mid], clean[mid + 1]), FInt(2))
            ELSE clean[mid + 1]
        Sorted(clean) == Middle(clean, Len(clean), Len(clean) \div 2)
    IN  Sorted(SortSeq(SelectSeq(values, LAMBDA v : v # None), FLt))

\* comps._median; clean is indexed from 0 in the code and from 1 here
median(values) ==
    LET Middle(clean, n, mid) ==
            IF clean = <<>> THEN None
            ELSE IF n % 2 = 0 THEN FDiv(FAdd(clean[mid], clean[mid + 1]), FInt(2))
            ELSE clean[mid + 1]
        Sorted(clean) == Middle(clean, Len(clean), Len(clean) \div 2)
    IN  Sorted(SortSeq(SelectSeq(values, LAMBDA v : v # None /\ FGt(v, Zero)), FLt))

\* x or y, for strings
OrText(x, y) == IF x.some /\ x.text # <<>> THEN x.text ELSE y

\* comps._build_comp_entry_from_finviz
build_comp_entry_from_finviz(ticker, fundament, is_target) ==
    [ticker |-> ticker,
     company_name |-> OrText(DictGet(fundament, "Company"), ticker),
     market_cap |-> parse_market_cap(DictGet(fundament, "Market Cap")),
     sector |-> OrText(DictGet(fundament, "Sector"), <<>>),
     industry |-> OrText(DictGet(fundament, "Industry"), <<>>),
     price |-> OrZero(parse_float(DictGet(fundament, "Price"))),
     pe_ratio |-> parse_float(DictGet(fundament, "P/E")),
     ev_to_ebitda |-> parse_float(DictGet(fundament, "EV/EBITDA")),
     price_to_sales |-> parse_float(DictGet(fundament, "P/S")),
     price_to_book |-> parse_float(DictGet(fundament, "P/B")),
     ev_to_revenue |-> None,
     peg_ratio |-> parse_float(DictGet(fundament, "PEG")),
     gross_margin |-> pct_to_decimal(DictGet(fundament, "Gross Margin")),
     operating_margin |-> pct_to_decimal(DictGet(fundament, "Oper. Margin")),
     net_margin |-> pct_to_decimal(DictGet(fundament, "Profit Margin")),
     roe |-> pct_to_decimal(DictGet(fundament, "ROE")),
     roic |-> pct_to_decimal(DictGet(fundament, "ROI")),
     revenue_growth |-> pct_to_decimal(DictGet(fundament, "Sales Q/Q")),
     eps_growth |-> pct_to_decimal(DictGet(fundament, "EPS Q/Q")),
     dividend_yield |-> pct_to_decimal(DictGet(fundament, "Dividend %")),
     debt_to_equity |-> parse_float(DictGet(fundament, "Debt/Eq")),
     is_target |-> is_target]

\* the values of one field over a list of entries
Column(entries, field) == [i \in 1..Len(entries) |-> entries[i][field]]

fetch_comps_target_among_peers(ticker_arg, finviz_peers, finviz) ==
    LET ticker == Upper(ticker_arg)
        peer_list == IF finviz_peers # <<>> THEN finviz_peers
                     ELSE IF finviz.ticker_peer.status = "ok"
                     THEN finviz.ticker_peer.peers ELSE <<>>
        others == peer_list
        peer_tickers == SubSeq(others, 1, IF Len(others) < MAX_PEERS
                                          THEN Len(others) ELSE MAX_PEERS)
        all_tickers == <<ticker>> \o peer_tickers
        fetched == SelectSeq(all_tickers, LAMBDA t : t \in DOMAIN finviz.ticker_fundament)
        Medians(entries, peer_entries) ==
            [ticker |-> ticker,
             peers |-> entries,
             median_pe |-> median(Column(peer_entries, "pe_ratio")),
             median_ev_ebitda |-> median(Column(peer_entries, "ev_to_ebitda")),
             median_ps |-> median(Column(peer_entries, "price_to_sales")),
             median_pb |-> median(Column(peer_entries, "price_to_book"))]
        Peers(entries) == Medians(entries, SelectSeq(entries, LAMBDA e : ~e.is_target))
    IN  Peers([i \in 1..Len(fetched) |->
                  build_comp_entry_from_finviz(
                      fetched[i], finviz.ticker_fundament[fetched[i]],
                      fetched[i] = ticker)])

\* comps.fetch_comps; finviz.ticker_peer is what the peer lookup answers and
\* finviz.ticker_fundament[t] the fundamentals of t, absent where the request
\* for t fails
fetch_comps(ticker_arg, finviz_peers, finviz) ==
    LET ticker == Upper(ticker_arg)
        peer_list == IF finviz_peers # <<>> THEN finviz_peers
                     ELSE IF finviz.ticker_peer.status = "ok"
                     THEN finviz.ticker_peer.peers ELSE <<>>
        others == SelectSeq(peer_list, LAMBDA q : q # ticker)
        peer_tickers == SubSeq(others, 1, IF Len(others) < MAX_PEERS
                                          THEN Len(others) ELSE MAX_PEERS)
        all_tickers == <<ticker>> \o peer_tickers
        fetched == SelectSeq(all_tickers, LAMBDA t : t \in DOMAIN finviz.ticker_fundament)
        Medians(entries, peer_entries) ==
            [ticker |-> ticker,
             peers |-> entries,
             median_pe |-> median(Column(peer_entries, "pe_ratio")),
             median_ev_ebitda |-> median(Column(peer_entries, "ev_to_ebitda")),
             median_ps |-> median(Column(peer_entries, "price_to_sales")),
             median_pb |-> median(Column(peer_entries, "price_to_book"))]
        Peers(entries) == Medians(entries, SelectSeq(entries, LAMBDA e : ~e.is_target))
    IN  Peers([i \in 1..Len(fetched) |->
                  build_comp_entry_from_finviz(
                      fetched[i], finviz.ticker_fundament[fetched[i]],
                      fetched[i] = ticker)])

\* ------------------------------------------------------------------------
\* GET /analyze/{ticker} (main.py)
\* ------------------------------------------------------------------------

\* a null payload of the response
Null == [null |-> TRUE]

\* the tasks of analyze_ticker whose failure the handler absorbs
Sections ==
    {"sector", "transcript", "dcf", "ddm", "financials", "comps", "news", "industry"}

\* an exception instance returned by asyncio.gather(return_exceptions=True)
Raised(kind) == [raised |-> kind]

\* isinstance(result, Exception)
IsException(result) == result.raised # "None"

\* the classes an exception of a kind is an instance of.  requests.HTTPError
\* derives from requests.RequestException, which derives from IOError; in
\* Python 3 IOError and EnvironmentError are both names of OSError.
exception_classes(kind) ==
    CASE kind = "None" -> {}
      [] kind = "HTTPError" ->
             {"HTTPError", "RequestException", "EnvironmentError", "Exception"}
      [] OTHER -> {kind, "Exception"}

\* isinstance(result, class) for a result of asyncio.gather
isinstance(result, class) == class \in exception_classes(result.raised)

\* the DCFModel payload built from a DCFResult
dcf_model_payload(dcf_data) ==
    [risk_free_rate |-> dcf_data.risk_free_rate,
     equity_risk_premium |-> dcf_data.equity_risk_premium,
     beta |-> dcf_data.beta,
     cost_of_equity |-> dcf_data.cost_of_equity,
     actuals |-> dcf_data.actuals,
     base_revenue_growth |-> dcf_data.base_revenue_growth,
     base_op_margin |-> dcf_data.base_op_margin,
     base_interest_expense |-> dcf_data.base_interest_expense,
     base_tax_rate |-> dcf_data.base_tax_rate,
     base_capex_pct |-> dcf_data.base_capex_pct,
     base_da_pct |-> dcf_data.base_da_pct,
     base_shares_growth |-> dcf_data.base_shares_growth,
     exit_pe_multiple |-> dcf_data.exit_pe_multiple,
     base_diluted_shares |-> dcf_data.base_diluted_shares,
     pv_fcfs |-> dcf_data.pv_fcfs,
     pv_terminal_value |-> dcf_data.pv_terminal_value,
     equity_value |-> dcf_data.equity_value]

\* the DDMModel payload built from a DDMResult
ddm_model_payload(ddm_data) ==
    [pays_dividends |-> ddm_data.pays_dividends,
     risk_free_rate |-> ddm_data.risk_free_rate,
     equity_risk_premium |-> ddm_data.equity_risk_premium,
     beta |-> ddm_data.beta,
     cost_of_equity |-> ddm_data.cost_of_equity,
     history |-> ddm_data.history,
     latest_annual_dps |-> ddm_data.latest_annual_dps,
     avg_dps_growth |-> ddm_data.avg_dps_growth,
     weighted_dps_growth |-> ddm_data.weighted_dps_growth,
     avg_payout_ratio |-> ddm_data.avg_payout_ratio,
     current_yield |-> ddm_data.current_yield,
     ggm_growth_rate |-> ddm_data.ggm_growth_rate,
     ggm_d1 |-> ddm_data.ggm_d1,
     ggm_intrinsic_value |-> ddm_data.ggm_intrinsic_value,
     ggm_upside_downside |-> ddm_data.ggm_upside_downside,
     ts_high_growth_rate |-> ddm_data.ts_high_growth_rate,
     ts_high_growth_years |-> ddm_data.ts_high_growth_years,
     ts_terminal_growth_rate |-> ddm_data.ts_terminal_growth_rate,
     ts_intrinsic_value |-> ddm_data.ts_intrinsic_value,
     ts_pv_stage1 |-> ddm_data.ts_pv_stage1,
     ts_pv_terminal |-> ddm_data.ts_pv_terminal,
     ts_upside_downside |-> ddm_data.ts_upside_downside]

ddm_availability_kept_on_failure(ddm_result) ==
    IF IsException(ddm_result) THEN TRUE ELSE ddm_result.pays_dividends

\* ddm_available of analyze_ticker: false for a failed DDM and for a company
\* that pays no dividends
ddm_availability(ddm_result) ==
    IF IsException(ddm_result) THEN FALSE ELSE ddm_result.pays_dividends

\* phase 3 of analyze_ticker: the AnalysisResponse
analysis_response(sector_info, sector_rules, tenk_data, transcript_result, dcf_result, ddm_result, financials_result, comps_result, analysis_result, industry_result) ==
    LET transcript_available == ~IsException(transcript_result)
        dcf_available == ~IsException(dcf_result)
        ddm_available == ddm_availability(ddm_result)
        financials_available == IF IsException(financials_result) THEN FALSE
                                ELSE Len(financials_result.years) > 0
        comps_available == IF IsException(comps_result) THEN FALSE
                           ELSE Len(comps_result.peers) > 1
    IN  [status |-> 200,
         ticker |-> analysis_result.ticker,
         filing_date |-> tenk_data.filing_date,
         cik |-> tenk_data.cik,
         sector |-> IF sector_info.present THEN [text |-> sector_info.sector] ELSE Null,
         industry |-> IF sector_info.present THEN [text |-> sector_info.industry] ELSE Null,
         transcript_available |-> transcript_available,
         transcript |-> IF transcript_available
                        THEN [date |-> transcript_result.date,
                              quarter |-> transcript_result.quarter,
                              year |-> transcript_result.year,
                              urls |-> transcript_result.all_transcripts]
                        ELSE Null,
         dcf_available |-> dcf_available,
         current_price |-> IF dcf_available THEN dcf_result.current_price ELSE None,
         intrinsic_value |-> IF dcf_available THEN dcf_result.intrinsic_value ELSE None,
         upside_downside |-> IF dcf_available THEN dcf_result.upside_downside ELSE None,
         dcf_model |-> IF dcf_available THEN dcf_model_payload(dcf_result) ELSE Null,
         dcf_warning |-> sector_rules.dcf_warning,
         analysis |-> analysis_result,
         industry_analysis |-> IF IsException(industry_result) THEN Null
                               ELSE industry_result,
         ddm_available |-> ddm_available,
         ddm_model |-> IF IsException(ddm_result) THEN Null
                       ELSE ddm_model_payload(ddm_result),
         financials_available |-> financials_available,
         financials |-> IF financials_available
                        THEN [years |-> financials_result.years] ELSE Null,
         comps_available |-> comps_available,
         comps |-> IF comps_available
                   THEN [peers |-> comps_result.peers,
                         median_pe |-> comps_result.median_pe,
                         median_ev_ebitda |-> comps_result.median_ev_ebitda,
                         median_ps |-> comps_result.median_ps,
                         median_pb |-> comps_result.median_pb]
                   ELSE Null]

\* analyze_ticker, 10-K check: the HTTPException raised for a 10-K fetch
\* that raised, by the first isinstance test that holds
tenk_http_exception(tenk_result) ==
    IF isinstance(tenk_result, "ValueError") THEN [status |-> 404]
    ELSE IF isinstance(tenk_result, "EnvironmentError") THEN [status |-> 500]
    ELSE IF isinstance(tenk_result, "HTTPError") THEN [status |-> 502]
    ELSE [status |-> 500]

\* main.analyze_ticker.  w is what the outside world does during the request:
\* w.fails has the tasks that raise, and the other fields hold what each
\* upstream answers when it does not fail.  The answer of the language model
\* is kept symbolic, as the inputs it was prompted with.
analyze_ticker(ticker, w) ==
    LET \* phase 0
        sector_info == IF "sector" \in w.fails THEN NoSectorInfo ELSE w.sector_info
        sector_rules == get_sector_rules(sector_info.sector)
        \* phase 1
        tenk_result == w.tenk
        transcript_result ==
            IF "transcript" \in w.fails THEN Raised("ValueError")
            ELSE IF sector_info.company_name = "" THEN w.transcript.unnamed
            ELSE w.transcript.named
        financials_result ==
            IF "financials" \in w.fails THEN Raised("ValueError") ELSE w.financials
        news_result == IF "news" \in w.fails THEN Raised("EnvironmentError") ELSE w.news
        news_text == IF IsException(news_result) THEN "" ELSE news_result.news_summary_text
        \* phase 2
        tenk_text == <<tenk_result.mda, tenk_result.risk_factors>>
        transcript_text ==
            IF IsException(transcript_result) THEN "" ELSE transcript_result.content
        analysis_result ==
            IF w.analysis # "None" THEN Raised(w.analysis)
            ELSE [raised |-> "None", ticker |-> Upper(ticker),
                  prompted_with |-> <<tenk_text, transcript_text, sector_info.sector,
                                      sector_rules.analyst_guidance, news_text>>]
        industry_result ==
            IF "industry" \in w.fails THEN Raised("ValueError")
            ELSE [raised |-> "None",
                  prompted_with |-> <<tenk_text, transcript_text, sector_info.sector>>]
        Respond(dcf_result, ddm_result, comps_result) ==
            IF IsException(tenk_result) THEN tenk_http_exception(tenk_result)
            ELSE IF IsException(analysis_result) THEN [status |-> 500]
            ELSE analysis_response(sector_info, sector_rules, tenk_result,
                                   transcript_result, dcf_result, ddm_result,
                                   financials_result, comps_result, analysis_result,
                                   industry_result)
        Upstream(up, fails) ==
            [up EXCEPT !.sector_info = sector_info,
                       !.quotes = IF fails THEN [@ EXCEPT !.status = "HTTPError"] ELSE @]
    IN  Respond(fetch_dcf(Upstream(w.dcf, "dcf" \in w.fails)),
                fetch_ddm(Upstream(w.ddm, "ddm" \in w.fails)),
                IF "comps" \in w.fails THEN Raised("TypeError")
                ELSE [raised |-> "None"] @@ fetch_comps(ticker, <<>>, w.finviz))

\* ------------------------------------------------------------------------
\* Inputs
\* ------------------------------------------------------------------------

\* dividends per share, prices and rates given to the DDM formulas
DpsValues == {Dec(-1, 0), Zero, Dec(1, 0), Dec(25, -1)}

PriceValues == {Zero, Dec(50, 0)}

CostOfEquityValues == {Dec(-1, 0), Zero, Dec(3, -3), Dec(8, -2), Dec(10, -2)}

GgmGrowthValues == {Dec(-2, 0), Zero, Dec(3, -2), Dec(8, -2), Dec(12, -2)}

HighGrowthValues == {Dec(-10, -2), Dec(10, -2)}

MaxHighGrowthYears == 5

HighGrowthYears == {0, 2, MaxHighGrowthYears}

TerminalGrowthValues == {Zero, Dec(3, -2), Dec(10, -2)}

DDMRecalcRequests ==
    [latest_annual_dps : DpsValues,
     current_price : PriceValues,
     cost_of_equity : CostOfEquityValues,
     ggm_growth_rate : GgmGrowthValues,
     ts_high_growth_rate : HighGrowthValues,
     ts_high_growth_years : HighGrowthYears,
     ts_terminal_growth_rate : TerminalGrowthValues]

\* what the upstream requests of fetch_ddm answer
Payment(y, amount) == [year |-> y, amount |-> amount]

DividendAnswers ==
    { [status |-> "error", records |-> <<>>],
      [status |-> "ok", records |-> <<>>],
      [status |-> "ok", records |-> <<Payment(2024, Zero), Payment(0, Dec(1, 0))>>],
      [status |-> "ok", records |-> <<Payment(2024, Dec(1, 0))>>],
      [status |-> "ok", records |->
          <<Payment(2024, Dec(121, -2)), Payment(2023, Dec(110, -2)),
            Payment(2022, Dec(100, -2))>>],
      [status |-> "ok", records |->
          <<Payment(2024, Dec(1, 0)), Payment(2023, Dec(1, 0)), Payment(2023, Dec(1, 0))>>],
      [status |-> "ok", records |->
          <<Payment(2024, Dec(3, 0)), Payment(2023, Dec(1, 0))>>],
      [status |-> "ok", records |->
          <<Payment(2024, Dec(17, -1)), Payment(2023, Dec(16, -1)), Payment(2022, Dec(15, -1)),
            Payment(2021, Dec(14, -1)), Payment(2020, Dec(13, -1)), Payment(2019, Dec(12, -1)),
            Payment(2018, Dec(11, -1)), Payment(2017, Dec(10, -1))>>] }

Statement(y, eps) == [year |-> y, epsDiluted |-> eps]

IncomeAnswers ==
    { [status |-> "HTTPError", stmts |-> <<>>],
      [status |-> "empty", stmts |-> <<>>],
      [status |-> "ok", stmts |->
          <<Statement(2024, Dec(4, 0)), Statement(2023, Dec(-1, 0)), Statement(2022, None)>>],
      [status |-> "ok", stmts |-> <<Statement(2024, Dec(3, 0)), Statement(2023, Zero)>>] }

QuoteAnswers ==
    { [status |-> "HTTPError", quote |-> [price |-> None, beta |-> None]],
      [status |-> "ok", quote |-> [price |-> None, beta |-> None]],
      [status |-> "ok", quote |-> [price |-> Dec(50, 0), beta |-> None]],
      [status |-> "ok", quote |-> [price |-> Dec(50, 0), beta |-> Dec(12, -1)]] }

SectorInfos ==
    { [present |-> FALSE, beta |-> Zero],
      [present |-> TRUE, beta |-> Zero],
      [present |-> TRUE, beta |-> Dec(2, -1)],
      [present |-> TRUE, beta |-> Dec(8, -1)] }

RiskFreeRates == {Dec(1, -3), Dec(25, -3), Dec(43, -3)}

EquityRiskPremiums == {Dec(1, -2), Dec(55, -3)}

DdmUpstreams ==
    [api_key : {TRUE},
     quotes : QuoteAnswers,
     sector_info : SectorInfos,
     dividends : DividendAnswers,
     income : IncomeAnswers,
     risk_free_rate : RiskFreeRates,
     equity_risk_premium : EquityRiskPremiums]
    \cup
    [api_key : {FALSE},
     quotes : {[status |-> "ok", quote |-> [price |-> Dec(50, 0), beta |-> None]]},
     sector_info : {[present |-> FALSE, beta |-> Zero]},
     dividends : {[status |-> "ok", records |-> <<>>]},
     income : {[status |-> "empty", stmts |-> <<>>]},
     risk_free_rate : {Dec(43, -3)},
     equity_risk_premium : {Dec(55, -3)}]

\* DCF inputs: base figures, uniform per-year assumptions, discount rates
BaseRevenues == {Zero, Dec(121, 0), Dec(1000, 0)}

BaseShares == {Zero, Dec(100, 0)}

InterestExpenses == {Zero, Dec(300, 0)}

RevenueGrowths == {Dec(-5, -2), Dec(10, -2)}

OpMargins == {Dec(20, -2), Dec(25, -2)}

TaxRates == {Zero, Dec(21, -2)}

CapexPcts == {Dec(5, -2)}

DaPcts == {Dec(3, -2)}

SharesGrowths == {Dec(-2, -2), Zero}

ExitPes == {Dec(20, 0)}

DcfCostsOfEquity == {Dec(-1, 0), Dec(8, -2), Dec(10, -2)}

\* len copies of v
Copies(len, v) == [i \in 1..len |-> v]

\* requests whose six arrays are PROJECTION_YEARS copies of one value each
UniformDcfRequests ==
    { [base_revenue |-> rev, base_diluted_shares |-> sh, interest_expense |-> ie,
       growth_rates |-> Copies(PROJECTION_YEARS, g),
       op_margins |-> Copies(PROJECTION_YEARS, m),
       tax_rates |-> Copies(PROJECTION_YEARS, tx),
       capex_pcts |-> Copies(PROJECTION_YEARS, cx),
       da_pcts |-> Copies(PROJECTION_YEARS, da),
       shares_growths |-> Copies(PROJECTION_YEARS, sg),
       exit_pe_multiple |-> pe, cost_of_equity |-> re, current_price |-> price] :
      rev \in BaseRevenues, sh \in BaseShares, ie \in InterestExpenses,
      g \in RevenueGrowths, m \in OpMargins, tx \in TaxRates, cx \in CapexPcts,
      da \in DaPcts, sg \in SharesGrowths, pe \in ExitPes,
      re \in DcfCostsOfEquity, price \in PriceValues }

ArrayLengths == {PROJECTION_YEARS - 1, PROJECTION_YEARS, PROJECTION_YEARS + 1}

\* requests whose arrays have every combination of lengths
RaggedDcfRequests ==
    { [base_revenue |-> Dec(1000, 0), base_diluted_shares |-> Dec(100, 0),
       interest_expense |-> Zero,
       growth_rates |-> Copies(l1, Dec(10, -2)),
       op_margins |-> Copies(l2, Dec(25, -2)),
       tax_rates |-> Copies(l3, Dec(21, -2)),
       capex_pcts |-> Copies(l4, Dec(5, -2)),
       da_pcts |-> Copies(l5, Dec(3, -2)),
       shares_growths |-> Copies(l6, Zero),
       exit_pe_multiple |-> Dec(20, 0), cost_of_equity |-> Dec(10, -2),
       current_price |-> Dec(50, 0)] :
      l1 \in ArrayLengths, l2 \in ArrayLengths, l3 \in ArrayLengths,
      l4 \in ArrayLengths, l5 \in ArrayLengths, l6 \in ArrayLengths }

\* requests whose assumptions differ from year to year
VaryingDcfRequests ==
    { [base_revenue |-> Dec(1000, 0), base_diluted_shares |-> Dec(100, 0),
       interest_expense |-> ie,
       growth_rates |-> <<Dec(20, -2), Dec(15, -2), Dec(10, -2), Dec(5, -2), Dec(-5, -2)>>,
       op_margins |-> <<Dec(10, -2), Dec(15, -2), Dec(20, -2), Dec(25, -2), Dec(30, -2)>>,
       tax_rates |-> <<Zero, Dec(10, -2), Dec(21, -2), Dec(21, -2), Dec(25, -2)>>,
       capex_pcts |-> <<Dec(8, -2), Dec(7, -2), Dec(6, -2), Dec(5, -2), Dec(4, -2)>>,
       da_pcts |-> <<Dec(3, -2), Dec(3, -2), Dec(4, -2), Dec(4, -2), Dec(5, -2)>>,
       shares_growths |-> <<Dec(-2, -2), Dec(-1, -2), Zero, Dec(1, -2), Dec(2, -2)>>,
       exit_pe_multiple |-> Dec(20, 0), cost_of_equity |-> re,
       current_price |-> price] :
      ie \in InterestExpenses, re \in DcfCostsOfEquity, price \in PriceValues }

DCFRecalcRequests == UniformDcfRequests \cup RaggedDcfRequests \cup VaryingDcfRequests

\* Comps inputs: the target T, its peers, and what Finviz answers
TargetTicker == <<"T">>

PeerTickers == {<<"F">>, <<"K">>, <<"V">>}

MaxPeerList == 3

RECURSIVE PeerListsOf(_)
\* the peer lists of exactly k tickers, the target among them or not
PeerListsOf(k) ==
    IF k = 0 THEN {<<>>}
    ELSE {Append(l, t) : l \in PeerListsOf(k - 1), t \in PeerTickers \cup {TargetTicker}}

\* lists longer than MAX_PEERS
LongPeerLists ==
    { <<<<"F">>, <<"K">>, <<"V">>, <<"F">>, <<"K">>, <<"V">>, <<"F">>, <<"K">>, <<"V">>, <<"V">>>>,
      <<<<"F">>, <<"T">>, <<"K">>, <<"K">>, <<"K">>, <<"K">>, <<"K">>, <<"K">>, <<"K">>, <<"F">>, <<"F">>>> }

PeerLists == UNION {PeerListsOf(k) : k \in 0..MaxPeerList} \cup LongPeerLists

\* a row of Finviz fundamentals with the given P/E, EV/EBITDA, P/S, P/B cells
Fundament(pe, ev, ps, pb) ==
    [k \in {"Company", "Market Cap", "Sector", "Industry", "Price", "P/E",
            "EV/EBITDA", "P/S", "P/B", "PEG", "Gross Margin", "Oper. Margin",
            "Profit Margin", "ROE", "ROI", "Sales Q/Q", "EPS Q/Q", "Dividend %"} |->
        CASE k = "Company" -> <<"C", "o">>
          [] k = "Market Cap" -> <<"2", "6", "7", ".", "2", "9", "B">>
          [] k = "Sector" -> <<"T", "e", "c", "h">>
          [] k = "Industry" -> <<>>
          [] k = "Price" -> <<"5", "0", ".", "2", "5">>
          [] k = "P/E" -> pe
          [] k = "EV/EBITDA" -> ev
          [] k = "P/S" -> ps
          [] k = "P/B" -> pb
          [] k = "PEG" -> <<"-">>
          [] k = "Dividend %" -> <<"-">>
          [] OTHER -> <<"4", "5", ".", "9", "7", "%">>]

\* a row with the given Market Cap and Price cells
FundamentOf(row, cap, price) ==
    [k \in DOMAIN row |->
        IF k = "Market Cap" THEN cap ELSE IF k = "Price" THEN price ELSE row[k]]

\* a row that lacks some keys
FundamentWithout(row, keys) == [k \in DOMAIN row \ keys |-> row[k]]

\* what Finviz knows of each ticker; a ticker outside the domain fails
FundamentTables ==
    { (<<"T">> :> Fundament(<<"1", "0", "0">>, <<"5", "0">>, <<"9">>, <<"7">>))
        @@ (<<"F">> :> Fundament(<<"4">>, <<"1">>, <<"-">>, <<"1", ",", "2", "3", "4", ".", "5">>))
        @@ (<<"K">> :> Fundament(<<"8">>, <<"2">>, <<"N", "/", "A">>, <<"-", "3", ".", "5">>)),
      (<<"T">> :> Fundament(<<"0", ".", "5">>, <<"5", "0">>, <<"9">>, <<"7">>))
        @@ (<<"F">> :> Fundament(<<"1">>, <<"3">>, <<"0">>, <<" ", "2", ".", "5", " ">>))
        @@ (<<"K">> :> Fundament(<<"2">>, <<"-", "1">>, <<"4">>, <<"a", "b", "c">>))
        @@ (<<"V">> :> Fundament(<<"3">>, <<"8">>, <<"8">>, <<"$", "1", "0">>)),
      (<<"F">> :> Fundament(<<"1", "2", ".", "5">>, <<"-">>, <<"1", ".", "5">>, <<"0", ".", "0", "0">>))
        @@ (<<"V">> :> Fundament(<<"3", "0">>, <<>>, <<"2", ".", "5">>, <<"1", "0", "0", "0", "0", "0", "0", "0", "0", "0", "0", "0", "0">>)),
      (<<"T">> :> Fundament(<<"2", "0">>, <<"1", "5">>, <<"3">>, <<"4">>)),
      (<<"T">> :> FundamentOf(Fundament(<<"2", "0">>, <<"-">>, <<"3">>, <<"0">>),
                              <<"-">>, <<"N", "/", "A">>))
        @@ (<<"F">> :> FundamentWithout(Fundament(<<"5">>, <<"1">>, <<>>, <<"2">>),
                                        {"Market Cap", "Price", "P/E"}))
        @@ (<<"K">> :> FundamentOf(Fundament(<<"6">>, <<"2">>, <<"x">>, <<"3">>),
                                   <<"0", "M">>, <<"0", ".", "0">>)) }

PeerAnswers ==
    { [status |-> "error", peers |-> <<>>],
      [status |-> "not a list", peers |-> <<>>],
      [status |-> "ok", peers |-> <<<<"K">>, <<"F">>, <<"T">>, <<"V">>>>] }

\* requests with a pre-fetched peer list, and requests that look the peers up
CompsRequests ==
    [ticker : {<<"T">>, <<"t">>},
     finviz_peers : PeerLists \ {<<>>},
     finviz : [ticker_peer : {[status |-> "error", peers |-> <<>>]},
               ticker_fundament : FundamentTables]]
    \cup
    [ticker : {<<"T">>, <<"t">>},
     finviz_peers : {<<>>},
     finviz : [ticker_peer : PeerAnswers, ticker_fundament : FundamentTables]]

\* what the upstream requests of fetch_dcf answer
IncomeStmt(y, revenue, operating_income, interest, pretax, tax, net_income, shares, eps) ==
    [year |-> y, revenue |-> revenue, operatingIncome |-> operating_income,
     interestExpense |-> interest, incomeBeforeTax |-> pretax,
     incomeTaxExpense |-> tax, netIncome |-> net_income,
     weightedAverageShsOutDil |-> shares, epsDiluted |-> eps]

CashFlowStmt(capex, da) ==
    [capitalExpenditure |-> capex, depreciationAndAmortization |-> da]

BalanceSheet(cash, cash_and_investments, long_term_debt, short_term_debt) ==
    [cashAndCashEquivalents |-> cash, cashAndShortTermInvestments |-> cash_and_investments,
     longTermDebt |-> long_term_debt, shortTermDebt |-> short_term_debt]

\* three years of statements, newest first
IncomeStmts3 ==
    << IncomeStmt(2024, Dec(1000, 0), Dec(250, 0), Dec(-30, 0), Dec(220, 0), Dec(44, 0),
                  Dec(176, 0), Dec(100, 0), Dec(176, -2)),
       IncomeStmt(2023, Dec(800, 0), Dec(180, 0), Dec(-30, 0), Dec(150, 0), Dec(30, 0),
                  Dec(120, 0), Dec(102, 0), Dec(118, -2)),
       IncomeStmt(2022, Dec(640, 0), Dec(120, 0), Dec(-20, 0), Dec(100, 0), Dec(20, 0),
                  Dec(80, 0), Dec(104, 0), Dec(77, -2)) >>

\* a loss-making company with fields missing
IncomeStmts2 ==
    << IncomeStmt(2024, None, Dec(-20, 0), None, Dec(-25, 0), Dec(-5, 0),
                  Dec(-20, 0), None, Dec(-2, -1)),
       IncomeStmt(2023, Dec(500, 0), Dec(10, 0), Dec(5, 0), Dec(5, 0), Dec(1, 0),
                  Dec(4, 0), Dec(100, 0), Dec(4, -2)) >>

CashFlowStmts3 ==
    << CashFlowStmt(Dec(-50, 0), Dec(30, 0)), CashFlowStmt(Dec(-40, 0), Dec(25, 0)),
       CashFlowStmt(Dec(-30, 0), Dec(20, 0)) >>

BalanceSheets3 ==
    << BalanceSheet(Dec(200, 0), Dec(300, 0), Dec(400, 0), Dec(50, 0)),
       BalanceSheet(None, Dec(250, 0), Dec(400, 0), None),
       BalanceSheet(Zero, None, None, None) >>

StatementAnswers(stmts) ==
    { [status |-> "HTTPError", stmts |-> <<>>],
      [status |-> "empty", stmts |-> <<>>] }
    \cup {[status |-> "ok", stmts |-> SubSeq(stmts, 1, k)] : k \in 1..Len(stmts)}

DcfQuote(price, market_cap, beta) == [price |-> price, marketCap |-> market_cap, beta |-> beta]

DcfQuoteAnswers ==
    {[status |-> "HTTPError", quote |-> DcfQuote(None, None, None)],
     [status |-> "empty", quote |-> DcfQuote(None, None, None)]}
    \cup {[status |-> "ok", quote |-> DcfQuote(price, market_cap, beta)] :
             price \in {None, Zero, Dec(50, 0)},
             market_cap \in {None, Dec(-1, 0), Dec(5000, 0)},
             beta \in {None, Dec(-5, -1), Dec(12, -1)}}

Technology == <<"T", "e", "c", "h", "n", "o", "l", "o", "g", "y">>

Healthcare == <<"H", "e", "a", "l", "t", "h", "c", "a", "r", "e">>

DcfSectorInfos ==
    { NoSectorInfo,
      SectorInfo(Technology, SoftwareApplication, Zero, "Acme Inc."),
      SectorInfo(Technology, SoftwareApplication, Dec(25, -1), "Acme Inc."),
      SectorInfo(Healthcare, Biotech, Dec(8, -1), "Acme Inc.") }

\* what get_risk_free_rate() and get_equity_risk_premium() return
RiskFreeRateAnswers ==
    { Rate(Dec(43, -3), "config fallback"), Rate(Dec(43, -3), "FRED DGS10 (live)"),
      Rate(Dec(25, -3), "FRED DGS10 (live)") }

EquityRiskPremiumAnswers ==
    { Rate(Dec(55, -3), "config fallback"), Rate(Dec(55, -3), "Damodaran implied ERP (live)"),
      Rate(Dec(4, -2), "Damodaran implied ERP (live)") }

HealthyQuote == [status |-> "ok", quote |-> DcfQuote(Dec(50, 0), Dec(5000, 0), Dec(12, -1))]

Healthy(stmts) == [status |-> "ok", stmts |-> stmts]

\* the newest income statement of a company: revenue missing, negative or
\* positive; a loss, no profit or a profit; a tax credit, a normal tax or a tax
\* above half the profit; the share count missing, halved, kept or doubled
LastYearStmts ==
    { IncomeStmt(2024, revenue, Dec(250, 0), Dec(-30, 0), pretax, tax, Dec(176, 0),
                 shares, Dec(176, -2)) :
          revenue \in {None, Dec(-100, 0), Dec(1000, 0)},
          pretax \in {Dec(-25, 0), Zero, Dec(220, 0)},
          tax \in {Dec(-5, 0), Dec(44, 0), Dec(150, 0)},
          shares \in {None, Dec(51, 0), Dec(102, 0), Dec(204, 0)} }

DcfUpstreams ==
    \* every quote, sector and series length, with the fallback rates
    [api_key : {TRUE},
     income : StatementAnswers(IncomeStmts3),
     cash_flow : {Healthy(CashFlowStmts3), Healthy(SubSeq(CashFlowStmts3, 1, 1))},
     balance : {Healthy(BalanceSheets3), Healthy(SubSeq(BalanceSheets3, 1, 1))},
     quotes : DcfQuoteAnswers,
     sector_info : DcfSectorInfos,
     risk_free_rate : {Rate(Dec(43, -3), "config fallback")},
     equity_risk_premium : {Rate(Dec(55, -3), "config fallback")}]
    \cup
    \* every lookup answer and statement failure, with a healthy quote
    [api_key : BOOLEAN,
     income : {Healthy(IncomeStmts3), Healthy(IncomeStmts2)},
     cash_flow : StatementAnswers(CashFlowStmts3),
     balance : StatementAnswers(BalanceSheets3),
     quotes : {HealthyQuote},
     sector_info : {NoSectorInfo, SectorInfo(Technology, SoftwareApplication, Dec(25, -1), "Acme Inc.")},
     risk_free_rate : RiskFreeRateAnswers,
     equity_risk_premium : EquityRiskPremiumAnswers]
    \cup
    \* every newest income statement before two healthy years
    [api_key : {TRUE},
     income : {Healthy(<<last, IncomeStmts3[2], IncomeStmts3[3]>>) : last \in LastYearStmts},
     cash_flow : {Healthy(CashFlowStmts3)},
     balance : {Healthy(BalanceSheets3)},
     quotes : {HealthyQuote},
     sector_info : {NoSectorInfo},
     risk_free_rate : {Rate(Dec(43, -3), "config fallback")},
     equity_risk_premium : {Rate(Dec(55, -3), "config fallback")}]

\* what the outside world answers during one GET /analyze/{ticker}
HealthyTenk ==
    [raised |-> "None", mda |-> "mda", risk_factors |-> "risk factors",
     filing_date |-> "2024-11-01", cik |-> "0000320193", filing_urls |-> <<>>]

Transcript(quarter, content) ==
    [raised |-> "None", content |-> content, date |-> "2024-10-31",
     quarter |-> quarter, year |-> 2024, all_transcripts |-> <<>>]

DdmUpstreamOf(dividends) ==
    [api_key |-> TRUE,
     quotes |-> [status |-> "ok", quote |-> [price |-> Dec(50, 0), beta |-> Dec(12, -1)]],
     sector_info |-> NoSectorInfo,
     dividends |-> dividends,
     income |-> [status |-> "ok", stmts |->
                    <<Statement(2024, Dec(4, 0)), Statement(2023, Dec(-1, 0)),
                      Statement(2022, None)>>],
     risk_free_rate |-> Dec(43, -3),
     equity_risk_premium |-> Dec(55, -3)]

DcfUpstreamOf(income_stmts) ==
    [api_key |-> TRUE,
     income |-> Healthy(income_stmts),
     cash_flow |-> Healthy(CashFlowStmts3),
     balance |-> Healthy(BalanceSheets3),
     quotes |-> HealthyQuote,
     sector_info |-> NoSectorInfo,
     risk_free_rate |-> Rate(Dec(43, -3), "config fallback"),
     equity_risk_premium |-> Rate(Dec(55, -3), "config fallback")]

\* a dividend payer in Technology with peers, and a non-payer in Healthcare
\* with no peers and no financial history
BaseWorlds ==
    { [sector_info |-> SectorInfo(Technology, SoftwareApplication, Dec(25, -1), "Acme Inc."),
       transcript |-> [named |-> Transcript("Q4", "call of Acme Inc."),
                       unnamed |-> Transcript("Q3", "call of ACME")],
       dcf |-> DcfUpstreamOf(IncomeStmts3),
       ddm |-> DdmUpstreamOf(
                   [status |-> "ok", records |->
                       <<Payment(2024, Dec(121, -2)), Payment(2023, Dec(110, -2)),
                         Payment(2022, Dec(100, -2))>>]),
       financials |-> [raised |-> "None", years |-> <<2023, 2024>>],
       finviz |-> [ticker_peer |-> [status |-> "ok",
                                    peers |-> <<<<"K">>, <<"F">>, <<"T">>, <<"V">>>>],
                   ticker_fundament |->
                       (<<"T">> :> Fundament(<<"2", "0">>, <<"1", "5">>, <<"3">>, <<"4">>))
                       @@ (<<"F">> :> Fundament(<<"4">>, <<"1">>, <<"-">>, <<"2">>))
                       @@ (<<"K">> :> Fundament(<<"8">>, <<"2">>, <<"N", "/", "A">>, <<"5">>))],
       news |-> [raised |-> "None", news_summary_text |-> "headlines"]],
      [sector_info |-> SectorInfo(Healthcare, Biotech, Zero, ""),
       transcript |-> [named |-> Transcript("Q2", "call"),
                       unnamed |-> Transcript("Q2", "call")],
       dcf |-> DcfUpstreamOf(IncomeStmts2),
       ddm |-> DdmUpstreamOf([status |-> "ok", records |-> <<>>]),
       financials |-> [raised |-> "None", years |-> <<>>],
       finviz |-> [ticker_peer |-> [status |-> "error", peers |-> <<>>],
                   ticker_fundament |->
                       (<<"T">> :> Fundament(<<"2", "0">>, <<"1", "5">>, <<"3">>, <<"4">>))],
       news |-> [raised |-> "None", news_summary_text |-> ""]] }

World(base, fails, tenk, analysis) ==
    base @@ [fails |-> fails, tenk |-> tenk, analysis |-> analysis]

AnalyzeWorlds ==
    {World(b, F, HealthyTenk, "None") : b \in BaseWorlds, F \in SUBSET Sections}
    \cup {World(b, F, Raised(k), "None") :
             b \in BaseWorlds, F \in {{}, {"dcf", "news"}},
             k \in {"ValueError", "EnvironmentError", "HTTPError", "RuntimeError"}}
    \cup {World(b, F, HealthyTenk, k) :
             b \in BaseWorlds, F \in {{}, {"sector"}},
             k \in {"EnvironmentError", "ValueError"}}

\* what the upstream of a macro rate answers to one request
FredAnswers ==
    { [status |-> "ConnectionError", observations |-> <<>>],
      [status |-> "HTTPError", observations |-> <<>>],
      [status |-> "ok", observations |-> <<None>>],
      [status |-> "ok", observations |-> <<Dec(41, -1), Dec(425, -2), None>>],
      [status |-> "ok", observations |-> <<Dec(43, -1)>>] }

DamodaranAnswers ==
    { [status |-> "ConnectionError", cells |-> <<>>],
      [status |-> "ok", cells |-> <<Dec(2024, 0), Dec(25, 0)>>],
      [status |-> "ok", cells |-> <<Dec(46, -1), Dec(2024, 0)>>],
      [status |-> "ok", cells |-> <<Dec(4, 0), Dec(55, -1)>>] }

\* no upstream request was made
NoAnswer == [status |-> "none"]

UpstreamAnswers(key) ==
    IF key = "risk_free_rate" THEN FredAnswers ELSE DamodaranAnswers

\* the threads of one request that look the macro rates up
Threads == {"fetch_dcf", "fetch_ddm"}

\* the macro-rate calls started, over all threads
MaxCalls == 3

\* the clock runs to MaxDays days and MaxSeconds seconds
MaxDays == 2

MaxSeconds == 1

\* a thread that is not inside a macro-rate function
Outside == [pc |-> "outside", key |-> "", started |-> 0, seen |-> 0]

\* op, req, res: the call that has just returned, its inputs and its result.
\* now: time.time().  store: _cache._store of market_data.py.  thread: where
\* each thread is inside a macro-rate function (seen: how many calls had
\* returned when it read the cache).  history: the macro-rate calls that have
\* returned, numbered in the order of their return.  ncalls: the macro-rate
\* calls started.
VARIABLES op, req, res, now, store, thread, history, ncalls

macro_vars == <<now, store, thread, history, ncalls>>

vars == <<op, req, res, now, store, thread, history, ncalls>>

Init ==
    /\ op = "idle" /\ req = <<>> /\ res = <<>>
    /\ now = 0
    /\ store = EmptyStore
    /\ thread = [t \in Threads |-> Outside]
    /\ history = {}
    /\ ncalls = 0

\* ------------------------------------------------------------------------
\* Operations
\* ------------------------------------------------------------------------

\* the caller takes the result; the next call starts from idle
Return ==
    /\ op # "idle"
    /\ op' = "idle"
    /\ req' = <<>>
    /\ res' = <<>>
    /\ UNCHANGED macro_vars

GetSectorRules ==
    \E sector \in {<<>>} \cup SectorLabels(MaxWords) :
        /\ op = "idle"
        /\ op' = "get_sector_rules"
        /\ req' = [sector |-> sector]
        /\ res' = get_sector_rules(sector)
        /\ UNCHANGED macro_vars

WeightedGrowth ==
    \E values \in GrowthSeqs, sector_rules \in AllSectorRules :
        /\ op = "idle"
        /\ op' = "dcf._weighted_growth"
        /\ req' = [values |-> values, sector_rules |-> sector_rules]
        /\ res' = dcf_weighted_growth(values, sector_rules)
        /\ UNCHANGED macro_vars

DdmWeightedGrowth ==
    \E rates \in GrowthSeqs :
        /\ op = "idle"
        /\ op' = "ddm._weighted_growth"
        /\ req' = [rates |-> rates]
        /\ res' = ddm_weighted_growth(rates)
        /\ UNCHANGED macro_vars

NextDdmGrowth == DdmWeightedGrowth \/ Return

SpecDdmGrowth == Init /\ [][NextDdmGrowth]_vars

ComputeGgm ==
    \E d1 \in DpsValues, cost_of_equity \in CostOfEquityValues, g \in GgmGrowthValues :
        /\ op = "idle"
        /\ op' = "ddm._compute_ggm"
        /\ req' = [d1 |-> d1, cost_of_equity |-> cost_of_equity, g |-> g]
        /\ res' = compute_ggm(d1, cost_of_equity, g)
        /\ UNCHANGED macro_vars

RecalculateDdm ==
    \E r \in DDMRecalcRequests :
        /\ op = "idle"
        /\ op' = "recalculate_ddm"
        /\ req' = r
        /\ res' = recalculate_ddm(r)
        /\ UNCHANGED macro_vars

FetchDdm ==
    \E up \in DdmUpstreams :
        /\ op = "idle"
        /\ op' = "fetch_ddm"
        /\ req' = up
        /\ res' = fetch_ddm(up)
        /\ UNCHANGED macro_vars

ComputeInitialProjections ==
    \E rev \in BaseRevenues, sh \in BaseShares, ie \in InterestExpenses,
       g \in RevenueGrowths, m \in OpMargins, tx \in TaxRates, cx \in CapexPcts,
       da \in DaPcts, sg \in SharesGrowths, pe \in ExitPes, re \in DcfCostsOfEquity :
        /\ op = "idle"
        /\ op' = "dcf._compute_initial_projections"
        /\ req' = [base_revenue |-> rev, base_diluted_shares |-> sh,
                   interest_expense |-> ie, revenue_growth |-> g, op_margin |-> m,
                   tax_rate |-> tx, capex_pct |-> cx, da_pct |-> da,
                   shares_growth |-> sg, exit_pe |-> pe, cost_of_equity |-> re]
        /\ res' = compute_initial_projections(rev, sh, ie, g, m, tx, cx, da, sg, pe, re)
        /\ UNCHANGED macro_vars

RecalculateDcf ==
    \E r \in DCFRecalcRequests :
        /\ op = "idle"
        /\ op' = "recalculate_dcf"
        /\ req' = r
        /\ res' = recalculate_dcf(r)
        /\ UNCHANGED macro_vars

FetchDcf ==
    \E up \in DcfUpstreams :
        /\ op = "idle"
        /\ op' = "fetch_dcf"
        /\ req' = up
        /\ res' = fetch_dcf(up)
        /\ UNCHANGED macro_vars

NextFetchDcf == FetchDcf \/ Return

SpecFetchDcf == Init /\ [][NextFetchDcf]_vars

NextDcf == ComputeInitialProjections \/ RecalculateDcf \/ Return

SpecDcf == Init /\ [][NextDcf]_vars

FetchComps ==
    \E r \in CompsRequests :
        /\ op = "idle"
        /\ op' = "fetch_comps"
        /\ req' = r
        /\ res' = fetch_comps(r.ticker, r.finviz_peers, r.finviz)
        /\ UNCHANGED macro_vars

NextComps == FetchComps \/ Return

SpecComps == Init /\ [][NextComps]_vars

AnalyzeTicker ==
    \E ticker \in {<<"t">>}, w \in AnalyzeWorlds :
        /\ op = "idle"
        /\ op' = "analyze_ticker"
        /\ req' = [ticker |-> ticker, world |-> w]
        /\ res' = analyze_ticker(ticker, w)
        /\ UNCHANGED macro_vars

NextAnalyze == AnalyzeTicker \/ Return

\* The tasks of analyze_ticker.  Each is a call run in a worker thread by
\* asyncio.to_thread; the handler is suspended while it awaits them.
Phase1Tasks == {"tenk", "transcript", "dcf", "ddm", "financials", "comps", "news"}

LlmTasks == {"analysis", "industry"}

AnalyzeTasks == {"sector"} \cup Phase1Tasks \cup LlmTasks

\* the outside worlds of the requests followed task by task
PhaseWorlds ==
    {World(b, F, tenk, "None") :
        b \in BaseWorlds, F \in {{}, {"dcf", "news"}},
        tenk \in {HealthyTenk}
                 \cup {Raised(k) : k \in {"ValueError", "EnvironmentError",
                                           "HTTPError", "RuntimeError"}}}
    \cup {World(b, {}, HealthyTenk, k) :
             b \in BaseWorlds, k \in {"EnvironmentError", "ValueError"}}

\* asyncio.gather(..., return_exceptions=True) resumes the handler once
\* only some awaitable has ended
gather_first_completed(task, names) == \E t \in names : task[t] = "ended"

\* asyncio.gather(..., return_exceptions=True) and await resume the handler
\* once every awaitable has ended, whether it returned or raised
gather(task, names) == \A t \in names : task[t] = "ended"

\* asyncio.to_thread for each of the named calls
to_thread(task, names) ==
    [t \in AnalyzeTasks |-> IF t \in names THEN "running" ELSE task[t]]

\* analyze_ticker, phase 0: the handler starts the sector classification
AnalyzeBegin ==
    /\ op = "idle"
    /\ \E ticker \in {<<"t">>}, w \in PhaseWorlds :
           req' = [ticker |-> ticker, world |-> w, pc |-> "phase 0",
                   task |-> to_thread([t \in AnalyzeTasks |-> "not started"], {"sector"})]
    /\ op' = "analyze_ticker.await"
    /\ res' = <<>>
    /\ UNCHANGED macro_vars

\* a worker thread ends its call, by returning or by raising
TaskEnds ==
    \E t \in AnalyzeTasks :
        /\ op = "analyze_ticker.await"
        /\ req.task[t] = "running"
        /\ req' = [req EXCEPT !.task = [u \in AnalyzeTasks |->
                                           IF u = t THEN "ended" ELSE req.task[u]]]
        /\ UNCHANGED <<op, res>>
        /\ UNCHANGED macro_vars

\* analyze_ticker, phase 1: after the sector classification the handler
\* starts the seven fetches
AnalyzePhase1 ==
    /\ op = "analyze_ticker.await"
    /\ req.pc = "phase 0"
    /\ gather(req.task, {"sector"})
    /\ req' = [req EXCEPT !.pc = "phase 1", !.task = to_thread(req.task, Phase1Tasks)]
    /\ UNCHANGED <<op, res>>
    /\ UNCHANGED macro_vars

\* analyze_ticker, 10-K check and phase 2: after the seven fetches the
\* handler fails the request when the 10-K fetch raised, and otherwise starts
\* the two analyses
AnalyzePhase2 ==
    /\ op = "analyze_ticker.await"
    /\ req.pc = "phase 1"
    /\ gather(req.task, Phase1Tasks)
    /\ IF IsException(req.world.tenk)
       THEN /\ op' = "analyze_ticker"
            /\ req' = [req EXCEPT !.pc = "raised"]
            /\ res' = tenk_http_exception(req.world.tenk)
       ELSE /\ req' = [req EXCEPT !.pc = "phase 2",
                                  !.task = to_thread(req.task, LlmTasks)]
            /\ UNCHANGED <<op, res>>
    /\ UNCHANGED macro_vars

\* analyze_ticker, phase 3: after the two analyses the handler composes the
\* response
AnalyzePhase3 ==
    /\ op = "analyze_ticker.await"
    /\ req.pc = "phase 2"
    /\ gather(req.task, LlmTasks)
    /\ op' = "analyze_ticker"
    /\ req' = [req EXCEPT !.pc = "returned"]
    /\ \E w \in {req.world} : res' = analyze_ticker(req.ticker, w)
    /\ UNCHANGED macro_vars

NextPhases ==
    AnalyzeBegin \/ TaskEnds \/ AnalyzePhase1 \/ AnalyzePhase2 \/ AnalyzePhase3 \/ Return

SpecPhases == Init /\ [][NextPhases]_vars

SpecAnalyze == Init /\ [][NextAnalyze]_vars

NextCapm == FetchDcf \/ FetchDdm \/ Return

SpecCapm == Init /\ [][NextCapm]_vars

NextDdm == ComputeGgm \/ RecalculateDdm \/ FetchDdm \/ Return

SpecDdm == Init /\ [][NextDdm]_vars

\* the two recalculation endpoints
NextRecalc == RecalculateDcf \/ RecalculateDdm \/ Return

SpecRecalc == Init /\ [][NextRecalc]_vars

NextSector == GetSectorRules \/ Return

SpecSector == Init /\ [][NextSector]_vars

NextGrowth == WeightedGrowth \/ Return

SpecGrowth == Init /\ [][NextGrowth]_vars

\* the macro-rate function that looks a key up
macro_function(key) ==
    IF key = "risk_free_rate" THEN "get_risk_free_rate" ELSE "get_equity_risk_premium"

\* a macro-rate call returns a pair after the upstream has answered
MacroReturn(t, pair, answer, outcome) ==
    /\ op' = macro_function(thread[t].key)
    /\ req' = [thread |-> t, key |-> thread[t].key, started |-> thread[t].started,
               seen |-> thread[t].seen, answer |-> answer]
    /\ res' = [raised |-> "None", value |-> pair.value, source |-> pair.source,
               requested |-> TRUE]
    /\ history' = history \cup
                      {[n |-> Cardinality(history) + 1, key |-> thread[t].key, at |-> now,
                        value |-> pair.value,
                        source |-> pair.source, outcome |-> outcome]}
    /\ thread' = [u \in Threads |-> IF u = t THEN Outside ELSE thread[u]]

\* a thread enters a macro-rate function and reads the entry of its key
Enter(t, key, pc) ==
    /\ op = "idle"
    /\ thread[t].pc = "outside"
    /\ ncalls < MaxCalls
    /\ ncalls' = ncalls + 1
    /\ thread' = [u \in Threads |->
                     IF u = t
                     THEN [pc |-> pc, key |-> key, started |-> now,
                           seen |-> Cardinality(history)]
                     ELSE thread[u]]

\* get_with_source: the key is not stored, the function goes on to the request
CacheMiss ==
    \E t \in Threads, key \in MacroKeys :
        /\ ~store[key].present
        /\ Enter(t, key, "request")
        /\ UNCHANGED <<op, req, res, now, store, history>>

\* get_with_source: the entry is fresh, the function returns it
CacheHit ==
    \E t \in Threads, key \in MacroKeys :
        /\ op = "idle"
        /\ thread[t].pc = "outside"
        /\ ncalls < MaxCalls
        /\ store[key].present
        /\ ~entry_expired(store[key], now)
        /\ ncalls' = ncalls + 1
        /\ op' = macro_function(key)
        /\ req' = [thread |-> t, key |-> key, started |-> now,
                   seen |-> Cardinality(history), answer |-> NoAnswer]
        /\ res' = [raised |-> "None", value |-> store[key].value,
                   source |-> store[key].source, requested |-> FALSE]
        /\ history' = history \cup
                          {[n |-> Cardinality(history) + 1, key |-> key, at |-> now,
                            value |-> store[key].value,
                            source |-> store[key].source, outcome |-> "hit"]}
        /\ UNCHANGED <<now, store, thread>>

\* get_with_source: the entry read has expired, the function goes on to delete it
CacheExpired ==
    \E t \in Threads, key \in MacroKeys :
        /\ store[key].present
        /\ entry_expired(store[key], now)
        /\ Enter(t, key, "delete")
        /\ UNCHANGED <<op, req, res, now, store, history>>

\* get_with_source: del self._store[key] of a stored key, whichever entry it
\* holds by now
CacheDelete ==
    \E t \in Threads :
        /\ op = "idle"
        /\ thread[t].pc = "delete"
        /\ store[thread[t].key].present
        /\ store' = store_delete(store, thread[t].key)
        /\ thread' = [u \in Threads |->
                         IF u = t THEN [thread[t] EXCEPT !.pc = "request"] ELSE thread[u]]
        /\ UNCHANGED <<op, req, res, now, history, ncalls>>

\* get_with_source: del self._store[key] after another thread deleted the key
\* raises KeyError, outside the try block of the macro-rate function
CacheDeleteMissing ==
    \E t \in Threads :
        /\ op = "idle"
        /\ thread[t].pc = "delete"
        /\ ~store[thread[t].key].present
        /\ op' = macro_function(thread[t].key)
        /\ req' = [thread |-> t, key |-> thread[t].key, started |-> thread[t].started,
                   seen |-> thread[t].seen, answer |-> NoAnswer]
        /\ res' = [raised |-> "KeyError", value |-> None, source |-> "",
                   requested |-> FALSE]
        /\ thread' = [u \in Threads |-> IF u = t THEN Outside ELSE thread[u]]
        /\ UNCHANGED <<now, store, history, ncalls>>

\* the upstream answers with a value: it is stored and returned
FetchLive ==
    \E t \in Threads :
        \E answer \in UpstreamAnswers(thread[t].key) :
            /\ op = "idle"
            /\ thread[t].pc = "request"
            /\ fetched_rate(thread[t].key, answer) # None
            /\ store' = set_with_source(store, thread[t].key,
                                        fetched_rate(thread[t].key, answer),
                                        live_source(thread[t].key), now)
            /\ MacroReturn(t, Rate(fetched_rate(thread[t].key, answer),
                                   live_source(thread[t].key)), answer, "live")
            /\ UNCHANGED <<now, ncalls>>

\* the request or the parse fails: the fallback constant is returned, and
\* nothing is stored
FetchFallback ==
    \E t \in Threads :
        \E answer \in UpstreamAnswers(thread[t].key) :
            /\ op = "idle"
            /\ thread[t].pc = "request"
            /\ fetched_rate(thread[t].key, answer) = None
            /\ MacroReturn(t, fallback_rate(thread[t].key), answer, "fallback")
            /\ UNCHANGED <<now, store, ncalls>>

\* time passes: a second, or, between requests, the time-to-live of the cache
\* (an upstream request times out after 10 or 15 seconds)
Tick ==
    \E d \in {1, _CACHE_TTL} :
        /\ op = "idle"
        /\ IF d = 1 THEN now % _CACHE_TTL < MaxSeconds
           ELSE /\ now \div _CACHE_TTL < MaxDays
                /\ \A t \in Threads : thread[t].pc = "outside"
        /\ now' = now + d
        /\ UNCHANGED <<op, req, res, store, thread, history, ncalls>>

NextMacro ==
    \/ CacheMiss
    \/ CacheHit
    \/ CacheExpired
    \/ CacheDelete
    \/ CacheDeleteMissing
    \/ FetchLive
    \/ FetchFallback
    \/ Tick
    \/ Return

SpecMacro == Init /\ [][NextMacro]_vars

Next ==
    \/ GetSectorRules
    \/ WeightedGrowth
    \/ DdmWeightedGrowth
    \/ ComputeGgm
    \/ RecalculateDdm
    \/ ComputeInitialProjections
    \/ RecalculateDcf
    \/ FetchDdm
    \/ FetchDcf
    \/ FetchComps
    \/ AnalyzeTicker
    \/ AnalyzeBegin
    \/ TaskEnds
    \/ AnalyzePhase1
    \/ AnalyzePhase2
    \/ AnalyzePhase3
    \/ CacheMiss
    \/ CacheHit
    \/ CacheExpired
    \/ CacheDelete
    \/ CacheDeleteMissing
    \/ FetchLive
    \/ FetchFallback
    \/ Tick
    \/ Return

Spec == Init /\ [][Next]_vars

\* ------------------------------------------------------------------------
\* Properties
\* ------------------------------------------------------------------------

\* C1: dcf._weighted_growth returns a value within [growth_floor, growth_cap]
\* of the policy for a non-empty sequence, and exactly growth_floor for an
\* empty one.
C1_WeightedGrowthWithinBounds ==
    op = "dcf._weighted_growth" =>
        LET rules == req.sector_rules
        IN  /\ Len(req.values) > 0 =>
                FLe(rules.growth_floor, res) /\ FLe(res, rules.growth_cap)
            /\ Len(req.values) = 0 => res = rules.growth_floor

\* a sequence whose weighted mean lies above the cap, clamped to the cap
C1_Witness ==
    /\ op = "dcf._weighted_growth"
    /\ Len(req.values) >= 2
    /\ \A i \in 1..Len(req.values) : FGt(req.values[i], req.sector_rules.growth_cap)
    /\ res = req.sector_rules.growth_cap

\* C2: for n values the newest weight is n x bias and the others are n-1..1,
\* with the policy's bias and with it doubled, and the newest element's share
\* of the total weight does not decrease when the bias is doubled.
C2_RecencyBiasMonotone ==
    op = "dcf._weighted_growth" /\ Len(req.values) > 0 =>
        LET n == Len(req.values)
            bias == req.sector_rules.growth_recency_bias
            bias2 == FMul(FInt(2), bias)
            w == GrowthWeights(n, bias)
            w2 == GrowthWeights(n, bias2)
        IN  /\ w[1] = FMul(FInt(n), bias)
            /\ w2[1] = FMul(FInt(n), bias2)
            /\ \A i \in 2..n : w[i] = FInt(n - i + 1) /\ w2[i] = FInt(n - i + 1)
            /\ FLe(FMul(w[1], FSum(w2)), FMul(w2[1], FSum(w)))

\* the Technology policy (bias 2.0) applied to several values
C2_Witness ==
    /\ op = "dcf._weighted_growth"
    /\ Len(req.values) >= 2
    /\ req.sector_rules.growth_recency_bias = Dec(20, -1)
    /\ FLt(req.sector_rules.growth_floor, res)
    /\ FLt(res, req.sector_rules.growth_cap)

\* C3: get_sector_rules returns, for every label, the policy of the first
\* category in the order Technology, Energy, Financials, Healthcare, Consumer
\* Staples with a keyword in the lower-cased label, and the default policy
\* (cap 0.40, floor 0.03, no WACC cap, DCF appropriate) when there is none;
\* "Software-Application" (with an em dash) gives Technology, "" the default.
C3_ResolverFirstMatchWins ==
    op = "get_sector_rules" =>
        LET s == Lower(req.sector)
            tech == AnyIn(s, TechKeywords)
            energy == AnyIn(s, EnergyKeywords)
            fin == AnyIn(s, FinancialsKeywords)
            health == AnyIn(s, HealthcareKeywords)
            staples == AnyIn(s, ConsumerStaplesKeywords)
        IN  /\ res \in AllSectorRules
            /\ res.sector_label = "Technology" <=> tech
            /\ res.sector_label = "Energy" <=> ~tech /\ energy
            /\ res.sector_label = "Financial Services" <=> ~tech /\ ~energy /\ fin
            /\ res.sector_label = "Healthcare / Biotech" <=>
                   ~tech /\ ~energy /\ ~fin /\ health
            /\ res.sector_label = "Consumer Staples / Retail" <=>
                   ~tech /\ ~energy /\ ~fin /\ ~health /\ staples
            /\ res.sector_label = "General" <=>
                   ~tech /\ ~energy /\ ~fin /\ ~health /\ ~staples
            /\ res.sector_label = "General" =>
                   /\ res.growth_cap = Dec(40, -2)
                   /\ res.growth_floor = Dec(3, -2)
                   /\ res.wacc_cap = None
                   /\ res.dcf_appropriate
            /\ req.sector = SoftwareApplication =>
                   /\ res.sector_label = "Technology"
                   /\ res.growth_cap = Dec(40, -2)
                   /\ res.growth_recency_bias = Dec(20, -1)
            /\ req.sector = <<>> => res = DEFAULT

\* an upper-case label with keywords of two categories, resolved to the first
C3_Witness ==
    /\ op = "get_sector_rules"
    /\ req.sector # Lower(req.sector)
    /\ AnyIn(Lower(req.sector), EnergyKeywords)
    /\ AnyIn(Lower(req.sector), HealthcareKeywords)
    /\ res = ENERGY

\* C4: a label with a Healthcare keyword and none of the keywords technology,
\* software, semiconductor, information, nor an Energy or Financials keyword,
\* resolves to the Healthcare policy (e.g. "Biotech").
C4_HealthcareLabelsResolveToHealthcare ==
    op = "get_sector_rules" =>
        LET s == Lower(req.sector)
            SpecTechKeywords ==
                { <<"t", "e", "c", "h", "n", "o", "l", "o", "g", "y">>,
                  <<"s", "o", "f", "t", "w", "a", "r", "e">>,
                  <<"s", "e", "m", "i", "c", "o", "n", "d", "u", "c", "t", "o", "r">>,
                  <<"i", "n", "f", "o", "r", "m", "a", "t", "i", "o", "n">> }
        IN  ( /\ AnyIn(s, HealthcareKeywords)
              /\ ~AnyIn(s, SpecTechKeywords)
              /\ ~AnyIn(s, EnergyKeywords)
              /\ ~AnyIn(s, FinancialsKeywords) ) => res = HEALTHCARE

C6_MinimumSpreadForEveryCostOfEquity ==
    op = "fetch_ddm" /\ res.raised = "None" /\ res.pays_dividends =>
        /\ FGt(res.ggm_intrinsic_value, Zero) =>
               /\ FLe(Zero, res.ggm_growth_rate)
               /\ FLe(res.ggm_growth_rate, FSub(res.cost_of_equity, Dec(5, -3)))
        /\ res.ts_pv_terminal # Zero =>
               /\ FLe(Zero, res.ts_terminal_growth_rate)
               /\ FLe(res.ts_terminal_growth_rate,
                      FMin(Dec(3, -2), FSub(res.cost_of_equity, Dec(1, -2))))

\* C6 amended: the growth rates are floored at 0 after the clamp, so the
\* spread holds only from a cost of equity of 0.005 (Gordon) and 0.01
\* (Two-Stage) upwards: ggm_growth_rate <= max(0, cost_of_equity - 0.005) and
\* ts_terminal_growth_rate <= max(0, min(0.03, cost_of_equity - 0.01)).
C6_MinimumSpreadAboveFloor ==
    op = "fetch_ddm" /\ res.raised = "None" /\ res.pays_dividends =>
        /\ FGt(res.ggm_intrinsic_value, Zero) =>
               /\ FLe(Zero, res.ggm_growth_rate)
               /\ FLe(res.ggm_growth_rate,
                      FMax(Zero, FSub(res.cost_of_equity, Dec(5, -3))))
        /\ res.ts_pv_terminal # Zero =>
               /\ FLe(Zero, res.ts_terminal_growth_rate)
               /\ FLe(res.ts_terminal_growth_rate,
                      FMax(Zero, FMin(Dec(3, -2), FSub(res.cost_of_equity, Dec(1, -2)))))

\* both clamps act: growth 10% against a cost of equity between 1% and 10.5%
C6_Witness ==
    /\ op = "fetch_ddm"
    /\ res.raised = "None"
    /\ res.pays_dividends
    /\ FGt(res.weighted_dps_growth, res.ggm_growth_rate)
    /\ FGt(res.ggm_intrinsic_value, Zero)
    /\ res.ggm_growth_rate = FSub(res.cost_of_equity, Dec(5, -3))
    /\ res.ts_pv_terminal # Zero
    /\ res.ts_terminal_growth_rate = FSub(res.cost_of_equity, Dec(1, -2))

\* C8 as stated: the values recalculate_ddm returns equal those of
\* ddm._compute_ggm and ddm._compute_two_stage on the same inputs.
C8_RecalcDdmEqualsInitial ==
    op = "recalculate_ddm" /\ res.status = 200 =>
        LET d1 == FMul(req.latest_annual_dps, FAdd(One, req.ggm_growth_rate))
            ggm == compute_ggm(d1, req.cost_of_equity, req.ggm_growth_rate)
            ts == compute_two_stage(req.latest_annual_dps, req.ts_high_growth_rate,
                                    req.ts_high_growth_years, req.ts_terminal_growth_rate,
                                    req.cost_of_equity)
        IN  /\ res.ggm_intrinsic_value = ggm.value
            /\ res.ts_pv_stage1 = ts.pv_stage1
            /\ res.ts_pv_terminal = ts.pv_terminal
            /\ res.ts_intrinsic_value = ts.intrinsic_value

\* C8 amended: recalculate_ddm returns the values of ddm._compute_ggm and
\* ddm._compute_two_stage rounded to 2 decimals, whenever it returns a
\* response; it fails (ZeroDivisionError) exactly when _compute_two_stage
\* does; for Re - g2 <= 0 the terminal component is 0 and the intrinsic value
\* is the rounded stage-1 PV.
C8_RecalcDdmEqualsInitialRounded ==
    op = "recalculate_ddm" =>
        LET d1 == FMul(req.latest_annual_dps, FAdd(One, req.ggm_growth_rate))
            ggm == compute_ggm(d1, req.cost_of_equity, req.ggm_growth_rate)
            ts == compute_two_stage(req.latest_annual_dps, req.ts_high_growth_rate,
                                    req.ts_high_growth_years, req.ts_terminal_growth_rate,
                                    req.cost_of_equity)
        IN  /\ res.status = 200 <=> ts.raised = "None"
            /\ res.status = 200 =>
                   /\ res.ggm_intrinsic_value = FRound(ggm.value, 2)
                   /\ res.ts_pv_stage1 = FRound(ts.pv_stage1, 2)
                   /\ res.ts_pv_terminal = FRound(ts.pv_terminal, 2)
                   /\ res.ts_intrinsic_value = FRound(ts.intrinsic_value, 2)
                   /\ FLe(FSub(req.cost_of_equity, req.ts_terminal_growth_rate), Zero) =>
                          /\ res.ts_pv_terminal = Zero
                          /\ res.ts_intrinsic_value = res.ts_pv_stage1

\* a request with Re - g2 <= 0 and one with positive Gordon and terminal values
C8_Witness ==
    /\ op = "recalculate_ddm"
    /\ res.status = 200
    /\ req.ts_high_growth_years = MaxHighGrowthYears
    /\ FLt(req.cost_of_equity, req.ts_terminal_growth_rate)
    /\ FGt(res.ggm_intrinsic_value, Zero)
    /\ FGt(res.ts_pv_stage1, Zero)
    /\ res.ts_pv_terminal = Zero
\* C7 as stated: for a request whose six arrays are five copies of one value
\* each, recalculate_dcf returns the pv_fcfs, pv_terminal_value, equity_value
\* and intrinsic value of dcf._compute_initial_projections on the same inputs.
C7_RecalcDcfEqualsInitial ==
    LET IsUniform(s) == Len(s) = PROJECTION_YEARS /\ \A i \in 1..Len(s) : s[i] = s[1]
    IN  ( /\ op = "recalculate_dcf"
          /\ res.status = 200
          /\ \A i \in 1..6 : IsUniform(list_fields(req)[i][2]) ) =>
            LET init == compute_initial_projections(
                            req.base_revenue, req.base_diluted_shares,
                            req.interest_expense, req.growth_rates[1],
                            req.op_margins[1], req.tax_rates[1], req.capex_pcts[1],
                            req.da_pcts[1], req.shares_growths[1],
                            req.exit_pe_multiple, req.cost_of_equity)
            IN  /\ res.pv_fcfs = init.pv_fcfs
                /\ res.pv_terminal_value = init.pv_tv
                /\ res.equity_value = init.equity_value
                /\ res.intrinsic_value = init.iv

\* C7 amended: for such a request recalculate_dcf returns the values of
\* dcf._compute_initial_projections after rounding, pv_fcfs,
\* pv_terminal_value and equity_value to whole numbers and the intrinsic
\* value to 2 decimals, whenever it returns a response; it fails
\* (ZeroDivisionError) exactly when _compute_initial_projections does.
C7_RecalcDcfEqualsInitialRounded ==
    LET IsUniform(s) == Len(s) = PROJECTION_YEARS /\ \A i \in 1..Len(s) : s[i] = s[1]
    IN  ( /\ op = "recalculate_dcf"
          /\ \A i \in 1..6 : IsUniform(list_fields(req)[i][2]) ) =>
            LET init == compute_initial_projections(
                            req.base_revenue, req.base_diluted_shares,
                            req.interest_expense, req.growth_rates[1],
                            req.op_margins[1], req.tax_rates[1], req.capex_pcts[1],
                            req.da_pcts[1], req.shares_growths[1],
                            req.exit_pe_multiple, req.cost_of_equity)
            IN  /\ res.status \in {200, 500}
                /\ res.status = 200 <=> init.raised = "None"
                /\ res.status = 200 =>
                       /\ res.pv_fcfs = FRound(init.pv_fcfs, 0)
                       /\ res.pv_terminal_value = FRound(init.pv_tv, 0)
                       /\ res.equity_value = FRound(init.equity_value, 0)
                       /\ res.intrinsic_value = FRound(init.iv, 2)

\* a uniform request with a loss in the first year, a profit in the last and
\* a positive value per share
C7_Witness ==
    /\ op = "recalculate_dcf"
    /\ res.status = 200
    /\ \A i \in 1..6 : \A k \in 1..PROJECTION_YEARS :
           /\ Len(list_fields(req)[i][2]) = PROJECTION_YEARS
           /\ list_fields(req)[i][2][k] = list_fields(req)[i][2][1]
    /\ req.interest_expense = Dec(300, 0)
    /\ req.growth_rates[1] = Dec(10, -2)
    /\ FLt(res.pv_fcfs, Zero)
    /\ FGt(res.pv_terminal_value, Zero)
    /\ FGt(res.intrinsic_value, Zero)

\* C9: recalculate_dcf accepts a request only when each of growth_rates,
\* op_margins, tax_rates, capex_pcts, da_pcts, shares_growths has exactly 5
\* elements; otherwise it answers 422 naming the first array, in that order,
\* of the wrong length, and the answer carries no valuation.
C9_RecalcDcfValidatesArrayLengths ==
    op = "recalculate_dcf" =>
        LET names == <<"growth_rates", "op_margins", "tax_rates", "capex_pcts",
                       "da_pcts", "shares_growths">>
            lens == <<Len(req.growth_rates), Len(req.op_margins), Len(req.tax_rates),
                      Len(req.capex_pcts), Len(req.da_pcts), Len(req.shares_growths)>>
            bad == {i \in 1..6 : lens[i] # 5}
        IN  /\ res.status = 422 <=> bad # {}
            /\ bad # {} =>
                   LET first == CHOOSE i \in bad : \A j \in bad : i <= j
                   IN  res = [status |-> 422,
                              detail |-> [name |-> names[first], n |-> 5,
                                          got |-> lens[first]]]

\* growth_rates is right, op_margins too long, tax_rates too short: the
\* answer names op_margins
C9_Witness ==
    /\ op = "recalculate_dcf"
    /\ Len(req.growth_rates) = 5
    /\ Len(req.op_margins) = 6
    /\ Len(req.tax_rates) = 4
    /\ res.status = 422
    /\ res.detail.name = "op_margins"
    /\ res.detail.got = 6
\* C10: each median of fetch_comps (P/E, EV/EBITDA, P/S, P/B) is the standard
\* median of that multiple over the entries with is_target = false, null and
\* non-positive values discarded: null for none, the middle value for an odd
\* count, the mean of the two middle values for an even count (nothing gives
\* null, 4 and 8 give 6, 1, 2 and 3 give 2); the target's value plays no part.
C10_MediansOverPeersOnly ==
    op = "fetch_comps" =>
        LET peers == SelectSeq(res.peers, LAMBDA e : ~e.is_target)
            Kept(field) ==
                SelectSeq([i \in 1..Len(peers) |-> peers[i][field]],
                          LAMBDA v : v # None /\ FGt(v, Zero))
            Rank(kept, r) ==
                CHOOSE x \in {kept[i] : i \in 1..Len(kept)} :
                    /\ Cardinality({i \in 1..Len(kept) : FLt(kept[i], x)}) <= r - 1
                    /\ Cardinality({i \in 1..Len(kept) : FLe(kept[i], x)}) >= r
            Standard(kept) ==
                IF Len(kept) = 0 THEN None
                ELSE IF Len(kept) % 2 = 1 THEN Rank(kept, (Len(kept) + 1) \div 2)
                ELSE FDiv(FAdd(Rank(kept, Len(kept) \div 2),
                               Rank(kept, Len(kept) \div 2 + 1)), FInt(2))
            Values(kept) == {kept[i] : i \in 1..Len(kept)}
        IN  /\ res.median_pe = Standard(Kept("pe_ratio"))
            /\ res.median_ev_ebitda = Standard(Kept("ev_to_ebitda"))
            /\ res.median_ps = Standard(Kept("price_to_sales"))
            /\ res.median_pb = Standard(Kept("price_to_book"))
            /\ Kept("pe_ratio") = <<>> => res.median_pe = None
            /\ Len(Kept("pe_ratio")) = 2 /\ Values(Kept("pe_ratio")) = {FInt(4), FInt(8)} =>
                   res.median_pe = FInt(6)
            /\ ( /\ Len(Kept("pe_ratio")) = 3
                 /\ Values(Kept("pe_ratio")) = {FInt(1), FInt(2), FInt(3)} ) =>
                   res.median_pe = FInt(2)

\* the target has the largest P/E, the peers 8 and 4 give the median 6, and
\* the null and negative P/B values of the peers leave one value
C10_Witness ==
    /\ op = "fetch_comps"
    /\ Len(res.peers) = 3
    /\ res.peers[1].is_target
    /\ res.peers[1].pe_ratio = FInt(100)
    /\ res.peers[2].pe_ratio = FInt(8)
    /\ res.peers[3].pe_ratio = FInt(4)
    /\ res.median_pe = FInt(6)
    /\ res.median_ps = None
    /\ res.peers[2].price_to_book = Dec(-35, -1)
    /\ res.median_pb = Dec(12345, -1)

\* ------------------------------------------------------------------------
\* Graceful degradation of GET /analyze/{ticker}
\* ------------------------------------------------------------------------

\* the availability flag (where the response has one) and the payload of a
\* section of the response; news has neither
SectionView(r, s) ==
    CASE s = "sector" -> <<r.sector, r.industry>>
      [] s = "transcript" -> <<r.transcript_available, r.transcript>>
      [] s = "dcf" -> <<r.dcf_available, r.current_price, r.intrinsic_value,
                        r.upside_downside, r.dcf_model>>
      [] s = "ddm" -> <<r.ddm_available, r.ddm_model>>
      [] s = "financials" -> <<r.financials_available, r.financials>>
      [] s = "comps" -> <<r.comps_available, r.comps>>
      [] s = "news" -> <<>>
      [] s = "industry" -> <<r.industry_analysis>>

\* a section that is unavailable: flag false, payload null
SectionAbsent(s) ==
    CASE s = "sector" -> <<Null, Null>>
      [] s = "transcript" -> <<FALSE, Null>>
      [] s = "dcf" -> <<FALSE, None, None, None, Null>>
      [] s = "ddm" -> <<FALSE, Null>>
      [] s = "financials" -> <<FALSE, Null>>
      [] s = "comps" -> <<FALSE, Null>>
      [] s = "news" -> <<>>
      [] s = "industry" -> <<Null>>

\* the sections whose result is an input of section s
FedBy(s) ==
    CASE s \in {"transcript", "dcf", "ddm"} -> {"sector"}
      [] s = "industry" -> {"sector", "transcript"}
      [] OTHER -> {}

\* a request whose 10-K fetch and bull/bear analysis succeed
MandatoryPartsSucceed ==
    /\ op = "analyze_ticker"
    /\ ~IsException(req.world.tenk)
    /\ req.world.analysis = "None"

\* the response to the same request had no task failed
ResponseWithoutFailures ==
    analyze_ticker(req.ticker, [req.world EXCEPT !.fails = {}])

\* C11 (as claimed): whatever subset of the eight optional tasks fails, the
\* request returns a response, every failed section is unavailable (flag
\* false, payload null), and every section that did not fail has the flag and
\* payload it has when nothing fails.
C11_EverySubsetDegradesIndependently ==
    MandatoryPartsSucceed =>
        /\ res.status = 200
        /\ \A s \in req.world.fails : SectionView(res, s) = SectionAbsent(s)
        /\ \A s \in Sections \ req.world.fails :
               SectionView(res, s) = SectionView(ResponseWithoutFailures, s)

\* C11 (amended): whatever subset of the eight optional tasks fails, the
\* request returns a response and every failed section is unavailable; a
\* section that did not fail has the flag and payload it has when nothing
\* fails provided no section that feeds it failed (the sector classification
\* feeds the transcript search, the DCF and the DDM; sector and transcript
\* feed the industry analysis).
C11_FailedSectionsDegrade ==
    MandatoryPartsSucceed =>
        /\ res.status = 200
        /\ \A s \in req.world.fails : SectionView(res, s) = SectionAbsent(s)
        /\ \A s \in Sections \ req.world.fails :
               FedBy(s) \cap req.world.fails = {} =>
                   SectionView(res, s) = SectionView(ResponseWithoutFailures, s)

\* all eight optional tasks fail and the request is still answered, for a
\* company whose sections are all available when nothing fails
C11_Witness ==
    /\ MandatoryPartsSucceed
    /\ req.world.fails = Sections
    /\ res.status = 200
    /\ ResponseWithoutFailures.dcf_available
    /\ ResponseWithoutFailures.ddm_available
    /\ ResponseWithoutFailures.comps_available
    /\ ResponseWithoutFailures.financials_available

\* ------------------------------------------------------------------------
\* fetch_ddm for a company without dividends
\* ------------------------------------------------------------------------

\* the fields of a DDMResult derived from the dividend history
DividendDerivedFields ==
    {"latest_annual_dps", "avg_dps_growth", "weighted_dps_growth", "avg_payout_ratio",
     "current_yield", "ggm_growth_rate", "ggm_d1", "ggm_intrinsic_value",
     "ggm_upside_downside", "ts_high_growth_rate", "ts_terminal_growth_rate",
     "ts_intrinsic_value", "ts_pv_stage1", "ts_pv_terminal", "ts_upside_downside"}

\* the price and CAPM fields of a DDMResult
PriceAndCapmFields ==
    {"current_price", "risk_free_rate", "equity_risk_premium", "beta", "cost_of_equity"}

\* fetch_ddm has a quote with a positive price and its income request did not
\* fail with an HTTP error, and no dividend payment with a date and a positive
\* amount was found (the dividend request failed or answered no such record)
NoDividendRecordsFound ==
    /\ op = "fetch_ddm"
    /\ req.api_key
    /\ req.quotes.status = "ok"
    /\ FGt(OrZero(req.quotes.quote.price), Zero)
    /\ req.income.status # "HTTPError"
    /\ \/ req.dividends.status # "ok"
       \/ \A i \in DOMAIN req.dividends.records :
              \/ req.dividends.records[i].year = 0
              \/ ~FGt(OrZero(req.dividends.records[i].amount), Zero)

PayerResult == op = "fetch_ddm" /\ res.raised = "None" /\ res.pays_dividends

\* the diluted EPS the income statements report for year y: None when the
\* income request answered nothing or no statement is of that year
ReportedEps(y) ==
    IF req.income.status = "ok" /\ \E i \in DOMAIN req.income.stmts : req.income.stmts[i].year = y
    THEN req.income.stmts[CHOOSE i \in DOMAIN req.income.stmts :
                              req.income.stmts[i].year = y].epsDiluted
    ELSE None

\* the EPS of year y is missing, zero or negative
EpsUnusable(y) == ReportedEps(y) = None \/ FLe(ReportedEps(y), Zero)

\* the total of the dividends paid in year y
AnnualDps(y) == yearly_divs(req.dividends.records)[y]

\* C13 (as claimed): in every history row, payout_ratio is null when the
\* year's EPS is missing, zero or negative, and otherwise equals annual DPS /
\* EPS, a non-negative number.
C13_PayoutRatioIsDpsOverEps ==
    PayerResult =>
        \A i \in DOMAIN res.history :
            IF EpsUnusable(res.history[i].year)
            THEN res.history[i].payout_ratio = None
            ELSE /\ res.history[i].payout_ratio =
                        FDiv(AnnualDps(res.history[i].year), ReportedEps(res.history[i].year))
                 /\ FGe(res.history[i].payout_ratio, Zero)

\* C13 (amended): in every history row, payout_ratio is null when the year's
\* EPS is missing, zero or negative, and otherwise equals annual DPS / EPS
\* rounded to 4 decimals, a non-negative number.
C13_PayoutRatioIsRoundedDpsOverEps ==
    PayerResult =>
        \A i \in DOMAIN res.history :
            IF EpsUnusable(res.history[i].year)
            THEN res.history[i].payout_ratio = None
            ELSE /\ res.history[i].payout_ratio # None
                 /\ res.history[i].payout_ratio =
                        FRound(FDiv(AnnualDps(res.history[i].year),
                                    ReportedEps(res.history[i].year)), 4)
                 /\ FGe(res.history[i].payout_ratio, Zero)

\* a history with a row of negative EPS (null ratio) and a row of positive EPS
\* whose ratio is positive
C13_Witness ==
    /\ PayerResult
    /\ \E i \in DOMAIN res.history :
           /\ ReportedEps(res.history[i].year) # None
           /\ FLt(ReportedEps(res.history[i].year), Zero)
           /\ res.history[i].payout_ratio = None
    /\ \E i \in DOMAIN res.history :
           /\ ~EpsUnusable(res.history[i].year)
           /\ FGt(res.history[i].payout_ratio, Zero)

\* ------------------------------------------------------------------------
\* Input validation of fetch_dcf
\* ------------------------------------------------------------------------

\* fetch_dcf ran with an API key and none of its four requests failed with an
\* HTTP error
DcfRequestsAnswered ==
    /\ op = "fetch_dcf"
    /\ req.api_key
    /\ \A a \in {req.income, req.cash_flow, req.balance, req.quotes} :
           a.status # "HTTPError"

\* the price or the market capitalisation is missing or not positive
DcfQuoteInvalid ==
    \/ req.quotes.status = "empty"
    \/ FLe(OrZero(req.quotes.quote.price), Zero)
    \/ FLe(OrZero(req.quotes.quote.marketCap), Zero)

\* one of the three statement series has fewer than two years
DcfSeriesTooShort ==
    \E a \in {req.income, req.cash_flow, req.balance} : Len(a.stmts) < 2

\* C14: fetch_dcf raises ValueError when the price or the market
\* capitalisation is missing or not positive or a statement series has fewer
\* than two years, and returns a DCFResult in every other case in which its
\* requests are answered.
C14_FetchDcfValidatesInputs ==
    DcfRequestsAnswered =>
        IF DcfQuoteInvalid \/ DcfSeriesTooShort
        THEN res.raised = "ValueError"
        ELSE res.raised = "None" /\ res.current_price = FRound(req.quotes.quote.price, 2)

\* a positive price and three years of every series, rejected for the market
\* capitalisation alone
C14_Witness ==
    /\ DcfRequestsAnswered
    /\ req.quotes.status = "ok"
    /\ FGt(OrZero(req.quotes.quote.price), Zero)
    /\ FLe(OrZero(req.quotes.quote.marketCap), Zero)
    /\ ~DcfSeriesTooShort
    /\ res.raised = "ValueError"

\* ------------------------------------------------------------------------
\* The macro-rate cache
\* ------------------------------------------------------------------------

\* a call of a macro-rate function has just returned or raised
MacroCallEnded == op \in {"get_risk_free_rate", "get_equity_risk_premium"}

\* the successful live fetches of the same rate that ended before the call began
LiveFetchesBefore ==
    {h \in history : h.key = req.key /\ h.outcome = "live" /\ h.n <= req.seen}

\* C15: after a successful live fetch of a macro rate, every later call of
\* the same function within 24 hours returns the fetched (value, source)
\* pair without an upstream request, and a call made when every fetch is more
\* than 24 hours old issues a new upstream request.
C15_LiveFetchCachedFor24Hours ==
    MacroCallEnded =>
        /\ \A f \in LiveFetchesBefore :
               req.started - f.at <= _CACHE_TTL =>
                   /\ res.raised = "None"
                   /\ res.value = f.value
                   /\ res.source = f.source
                   /\ ~res.requested
        /\ (/\ LiveFetchesBefore # {}
            /\ \A f \in LiveFetchesBefore : req.started - f.at > _CACHE_TTL)
               => res.requested

\* the calls of the same function that had returned before the call began
\* and returned less than 24 hours before it
CallsLessThan24HoursBefore ==
    {h \in history : /\ h.key = req.key
                     /\ h.n <= req.seen
                     /\ req.started - h.at < _CACHE_TTL}

\* C16: two calls of the same macro-rate function less than 24 hours apart
\* return the same (value, source) pair and the later one issues no upstream
\* request, whether the earlier call fetched, hit the cache or fell back.
C16_RepeatedLookupsIdempotent ==
    MacroCallEnded =>
        \A h \in CallsLessThan24HoursBefore :
            /\ res.raised = "None"
            /\ res.value = h.value
            /\ res.source = h.source
            /\ ~res.requested

\* the upstream request of the call failed: the connection or the HTTP status,
\* or the body held no usable number
UpstreamFetchFailed ==
    /\ res.requested
    /\ \/ req.answer.status # "ok"
       \/ /\ req.key = "risk_free_rate"
          /\ \A i \in 1..Len(req.answer.observations) : req.answer.observations[i] = None
       \/ /\ req.key = "equity_risk_premium"
          /\ \A i \in 1..Len(req.answer.cells) :
                 FLt(req.answer.cells[i], One) \/ FGt(req.answer.cells[i], Dec(20, 0))

\* the fallback pair of config.py for the function that ended
ConfigFallbackReturned ==
    /\ res.raised = "None"
    /\ res.source = "config fallback"
    /\ res.value = IF op = "get_risk_free_rate" THEN Dec(43, -3) ELSE Dec(55, -3)

\* an upstream failure does not raise and gives the fallback pair
UpstreamFailureGivesFallback ==
    (MacroCallEnded /\ UpstreamFetchFailed) => ConfigFallbackReturned

\* C17: a macro-rate lookup never fails: no call of get_risk_free_rate or
\* get_equity_risk_premium raises, and a call whose upstream fetch failed
\* (network, HTTP or parse) returns (0.043, "config fallback") or
\* (0.055, "config fallback").
C17_MacroLookupNeverFails ==
    /\ MacroCallEnded => res.raised = "None"
    /\ UpstreamFailureGivesFallback

\* ------------------------------------------------------------------------
\* The discount rate
\* ------------------------------------------------------------------------

\* fetch_dcf returned a valuation
DcfValued == op = "fetch_dcf" /\ res.raised = "None"

\* the sector policy that fetch_dcf resolved for the request
ResolvedSectorRules ==
    get_sector_rules(IF req.sector_info.present THEN req.sector_info.sector ELSE <<>>)

\* the CAPM rate of the request, as the result reports it
CapmRate ==
    FRound(FAdd(req.risk_free_rate.value,
                FMul(dcf_select_beta(req.sector_info, req.quotes.quote),
                     req.equity_risk_premium.value)), 4)

\* C18: when the resolved sector policy carries a cap on the discount rate
\* (Technology: 0.14), the rate with which fetch_dcf discounts never exceeds
\* the cap; when the policy has no cap the CAPM rate is used unchanged.
C18_DiscountRateWithinSectorCap ==
    DcfValued =>
        IF ResolvedSectorRules.wacc_cap # None
        THEN FLe(res.cost_of_equity, ResolvedSectorRules.wacc_cap)
        ELSE res.cost_of_equity = CapmRate

\* ------------------------------------------------------------------------
\* The growth aggregator of the dividend model
\* ------------------------------------------------------------------------

\* bounds of the aggregator contract without a boost of the newest rate
GrowthBounds(floor, cap) ==
    [growth_floor |-> floor, growth_cap |-> cap, growth_recency_bias |-> One]

\* the bounds that fetch_ddm knows: the clamp of the two-stage growth rate,
\* the clamp of the Gordon growth rate (0 to the cost of equity less 0.5%, for
\* a cost of equity of 8% and of 10%) and the outlier filter of the rates
DdmGrowthBounds ==
    { GrowthBounds(Dec(-10, -2), Dec(25, -2)),
      GrowthBounds(Zero, Dec(75, -3)),
      GrowthBounds(Zero, Dec(95, -3)),
      GrowthBounds(Dec(-50, -2), One) }

\* ddm._weighted_growth has returned
DdmGrowthEnded == op = "ddm._weighted_growth"

\* C19 as stated: there are bounds of the dividend model with which, for every
\* newest-first rate sequence, ddm._weighted_growth(rates) equals the
\* weightedGrowth contract with recency bias 1.0: the linearly weighted mean
\* clamped into [floor, cap], and the floor for an empty sequence.
C19_DdmGrowthIsTheContract ==
    DdmGrowthEnded =>
        \E b \in DdmGrowthBounds :
            /\ res = dcf_weighted_growth(req.rates, b)
            /\ \A rates \in GrowthSeqs :
                   ddm_weighted_growth(rates) = dcf_weighted_growth(rates, b)

\* C19 as the code has it: ddm._weighted_growth is the same linearly weighted
\* mean, but it is not clamped and gives 0 for an empty sequence: for every
\* non-empty sequence the contract with recency bias 1.0 is the clamp of what
\* ddm._weighted_growth returns, so the two agree exactly when the mean lies
\* within the bounds.
C19_ContractIsClampOfDdmGrowth ==
    DdmGrowthEnded =>
        IF Len(req.rates) = 0 THEN res = Zero
        ELSE \A b \in DdmGrowthBounds :
                 /\ dcf_weighted_growth(req.rates, b)
                        = FMax(b.growth_floor, FMin(b.growth_cap, res))
                 /\ (FLe(b.growth_floor, res) /\ FLe(res, b.growth_cap))
                        => res = dcf_weighted_growth(req.rates, b)

\* three rates whose weighted mean lies above the two-stage cap: the contract
\* gives 0.25, ddm._weighted_growth gives the mean
C19_Witness ==
    /\ DdmGrowthEnded
    /\ Len(req.rates) = 3
    /\ req.rates[1] # req.rates[3]
    /\ FGt(res, Dec(25, -2))
    /\ dcf_weighted_growth(req.rates, GrowthBounds(Dec(-10, -2), Dec(25, -2))) = Dec(25, -2)

\* ------------------------------------------------------------------------
\* Beta and cost of equity
\* ------------------------------------------------------------------------

\* fetch_dcf or fetch_ddm returned a result
CapmDerived == op \in {"fetch_dcf", "fetch_ddm"} /\ res.raised = "None"

\* the profile beta of the request (0 without sector information) and the
\* beta of its quote (0 when the quote has none)
ProfileBeta == IF req.sector_info.present THEN req.sector_info.beta ELSE Zero

QuoteBeta == IF req.quotes.quote.beta = None THEN Zero ELSE req.quotes.quote.beta

\* profile beta when positive, otherwise quote beta when positive, otherwise 1.0
PreferredBeta ==
    IF FGt(ProfileBeta, Zero) THEN ProfileBeta
    ELSE IF FGt(QuoteBeta, Zero) THEN QuoteBeta
    ELSE Dec(1, 0)

\* the macro rates that the request's lookups returned
RiskFreeRateOfRequest ==
    IF op = "fetch_dcf" THEN req.risk_free_rate.value ELSE req.risk_free_rate

EquityRiskPremiumOfRequest ==
    IF op = "fetch_dcf" THEN req.equity_risk_premium.value ELSE req.equity_risk_premium

\* what the other module derives from the same sector information, quote and
\* macro rates
BetaOfOtherModule ==
    IF op = "fetch_dcf" THEN select_beta(req.sector_info, req.quotes.quote)
    ELSE dcf_select_beta(req.sector_info, req.quotes.quote)

\* C20: in fetch_dcf and in fetch_ddm the beta used is the profile beta when
\* it is > 0, otherwise the quote beta when it is > 0, otherwise 1.0, so it is
\* strictly positive; cost of equity is risk-free rate + beta * equity risk
\* premium; and for the same inputs the other module derives the same beta and
\* the same cost of equity (the results report both rounded to 4 places).
C20_BetaSelectionAndCapm ==
    CapmDerived =>
        /\ res.beta = FRound(PreferredBeta, 4)
        /\ FGt(res.beta, Zero)
        /\ res.cost_of_equity
               = FRound(FAdd(RiskFreeRateOfRequest,
                             FMul(PreferredBeta, EquityRiskPremiumOfRequest)), 4)
        /\ res.beta = FRound(BetaOfOtherModule, 4)
        /\ res.cost_of_equity
               = FRound(FAdd(RiskFreeRateOfRequest,
                             FMul(BetaOfOtherModule, EquityRiskPremiumOfRequest)), 4)

\* fetch_dcf chose the profile beta over a positive quote beta
C20_Witness ==
    /\ CapmDerived
    /\ op = "fetch_dcf"
    /\ FGt(ProfileBeta, Zero)
    /\ FGt(QuoteBeta, Zero)
    /\ ProfileBeta # QuoteBeta
    /\ res.beta = ProfileBeta

\* ------------------------------------------------------------------------
\* The base assumptions of the DCF
\* ------------------------------------------------------------------------

\* the newest income and cash-flow statements of the request: the last actual
\* year of the result
LastIncome == req.income.stmts[1]

LastCashFlow == req.cash_flow.stmts[1]

LastRevenue == OrZero(LastIncome.revenue)

LastPretax == OrZero(LastIncome.incomeBeforeTax)

\* x / revenue of the last year as the result reports it, rounded to 4 places
RatioToLastRevenue(x) == FRound(FDiv(x, LastRevenue), 4)

\* the three ratios of the result are those of the last year
BaseRatiosOfLastYear ==
    /\ res.base_op_margin = RatioToLastRevenue(OrZero(LastIncome.operatingIncome))
    /\ res.base_capex_pct = RatioToLastRevenue(FAbs(OrZero(LastCashFlow.capitalExpenditure)))
    /\ res.base_da_pct = RatioToLastRevenue(OrZero(LastCashFlow.depreciationAndAmortization))

\* the three ratios of the result are the fallback constants
BaseRatiosFallback ==
    /\ res.base_op_margin = Dec(15, -2)
    /\ res.base_capex_pct = Dec(5, -2)
    /\ res.base_da_pct = Dec(3, -2)

\* the tax rate and the shares growth of the result
BaseTaxAndSharesBounds ==
    /\ FLe(Zero, res.base_tax_rate) /\ FLe(res.base_tax_rate, Dec(50, -2))
    /\ res.base_tax_rate
          = IF FGt(LastPretax, Zero)
            THEN FRound(FMin(Dec(50, -2),
                             FDiv(FAbs(OrZero(LastIncome.incomeTaxExpense)), LastPretax)), 4)
            ELSE Dec(21, -2)
    /\ FLe(Dec(-15, -2), res.base_shares_growth)
    /\ FLe(res.base_shares_growth, Dec(15, -2))

\* C21 as stated: the base tax rate lies in [0, 0.50] (|tax| / pretax capped
\* when pretax > 0, else 0.21), the base shares growth lies in [-0.15, 0.15],
\* and margin, capex% and D&A% are the fallback constants when the last
\* year's revenue is zero and the last year's ratios to revenue otherwise.
C21_BaseAssumptionsFallbackAtZeroRevenue ==
    DcfValued =>
        /\ BaseTaxAndSharesBounds
        /\ IF LastRevenue = Zero THEN BaseRatiosFallback ELSE BaseRatiosOfLastYear

\* C21 as the code has it: the same bounds, and margin, capex% and D&A% are
\* the last year's ratios (reported to 4 places) only when the last year's
\* revenue is positive; for a zero, missing or negative revenue they are the
\* fallback constants 0.15, 0.05, 0.03.
C21_BaseAssumptionsFallbackAtNonPositiveRevenue ==
    DcfValued =>
        /\ BaseTaxAndSharesBounds
        /\ IF FGt(LastRevenue, Zero) THEN BaseRatiosOfLastYear ELSE BaseRatiosFallback

\* a tax above half the profit, capped, and a doubled share count, clamped
C21_Witness ==
    /\ DcfValued
    /\ FGt(LastPretax, Zero)
    /\ FGt(FAbs(OrZero(LastIncome.incomeTaxExpense)), FMul(Dec(5, -1), LastPretax))
    /\ res.base_tax_rate = Dec(50, -2)
    /\ res.base_shares_growth = Dec(15, -2)
    /\ FGt(LastRevenue, Zero)

\* ------------------------------------------------------------------------
\* The projection arithmetic
\* ------------------------------------------------------------------------

\* pretax income of a year: revenue x margin - interest
StatedPretax(revenue, margin, interest) == FSub(FMul(revenue, margin), interest)

\* net income of a year: no tax (and no tax benefit) on a pretax income <= 0
StatedNetIncome(pretax, tax_rate) ==
    IF FLe(pretax, Zero) THEN pretax ELSE FSub(pretax, FMul(pretax, tax_rate))

\* free cash flow of a year: net income + D&A - capex
StatedFcf(revenue, net_income, da_pct, capex_pct) ==
    FSub(FAdd(net_income, FMul(revenue, da_pct)), FMul(revenue, capex_pct))

\* year t of a projection follows the stated arithmetic, from the revenue and
\* the discounted cash flows before the year to those after it
StatedYear(prev_revenue, prev_pv_fcfs, revenue, net_income, pv_fcfs, g, margin, interest, tax_rate, capex_pct, da_pct, re, t) ==
    /\ revenue = FMul(prev_revenue, FAdd(One, g))
    /\ net_income = StatedNetIncome(StatedPretax(revenue, margin, interest), tax_rate)
    /\ pv_fcfs = FAdd(prev_pv_fcfs,
                      FDiv(StatedFcf(revenue, net_income, da_pct, capex_pct),
                           FPow(FAdd(One, re), t)))

\* terminal value, equity value and value per share from the year-5 figures
StatedPvTv(net_income_5, exit_pe, re) ==
    FDiv(FMul(net_income_5, exit_pe), FPow(FAdd(One, re), 5))

StatedEquity(net_income_5, pv_fcfs_5, exit_pe, re) ==
    FAdd(pv_fcfs_5, StatedPvTv(net_income_5, exit_pe, re))

StatedPerShare(net_income_5, pv_fcfs_5, exit_pe, re, shares) ==
    FDiv(StatedEquity(net_income_5, pv_fcfs_5, exit_pe, re), shares)

\* dcf._compute_initial_projections returned its four values
InitialProjected == op = "dcf._compute_initial_projections" /\ res.raised = "None"

\* recalculate_dcf answered with a valuation
DcfRecalculated == op = "recalculate_dcf" /\ res.status = 200

\* the scenario of the specification
ProjectionScenario ==
    /\ InitialProjected
    /\ req.base_revenue = Dec(121, 0) /\ req.revenue_growth = Dec(10, -2)
    /\ req.op_margin = Dec(20, -2) /\ req.tax_rate = Dec(21, -2)
    /\ req.interest_expense = Zero /\ req.capex_pct = Dec(5, -2)
    /\ req.da_pct = Dec(3, -2) /\ req.cost_of_equity = Dec(8, -2)
    /\ req.exit_pe = Dec(20, 0) /\ req.base_diluted_shares = Dec(100, 0)

\* C22: in every year t = 1..5 of the initial projection and of the
\* recalculation, revenue_t = revenue_(t-1) x (1+g), pretax = revenue_t x
\* margin - interest, tax is 0 when pretax <= 0 and pretax x tax rate
\* otherwise, FCF = net income + D&A - capex; the terminal value is the year-5
\* net income x exit multiple discounted 5 periods, the equity value is the
\* sum of the two present values and the intrinsic value is the equity value
\* per base diluted share (the recalculation reports them rounded); in the
\* scenario year-1 revenue is 133.1 and the intrinsic value is positive.
C22_ProjectionFollowsStatedArithmetic ==
    /\ InitialProjected =>
          /\ \A t \in 1..5 :
                 StatedYear(initial_projections_loop(req, t - 1).prev_rev,
                            initial_projections_loop(req, t - 1).pv_fcfs,
                            initial_projections_loop(req, t).prev_rev,
                            initial_projections_loop(req, t).last_net_income,
                            initial_projections_loop(req, t).pv_fcfs,
                            req.revenue_growth, req.op_margin, req.interest_expense,
                            req.tax_rate, req.capex_pct, req.da_pct,
                            req.cost_of_equity, t)
          /\ res.pv_fcfs = initial_projections_loop(req, 5).pv_fcfs
          /\ res.pv_tv = StatedPvTv(initial_projections_loop(req, 5).last_net_income,
                                    req.exit_pe, req.cost_of_equity)
          /\ res.equity_value = FAdd(res.pv_fcfs, res.pv_tv)
          /\ FGt(req.base_diluted_shares, Zero)
                => res.iv = FDiv(res.equity_value, req.base_diluted_shares)
    /\ DcfRecalculated =>
          /\ \A t \in 1..5 :
                 StatedYear(recalc_dcf_loop(req, t - 1).prev_revenue,
                            recalc_dcf_loop(req, t - 1).pv_fcfs,
                            recalc_dcf_loop(req, t).prev_revenue,
                            recalc_dcf_loop(req, t).last_net_income,
                            recalc_dcf_loop(req, t).pv_fcfs,
                            req.growth_rates[t], req.op_margins[t], req.interest_expense,
                            req.tax_rates[t], req.capex_pcts[t], req.da_pcts[t],
                            req.cost_of_equity, t)
          /\ res.pv_fcfs = FRound(recalc_dcf_loop(req, 5).pv_fcfs, 0)
          /\ res.pv_terminal_value
                = FRound(StatedPvTv(recalc_dcf_loop(req, 5).last_net_income,
                                    req.exit_pe_multiple, req.cost_of_equity), 0)
          /\ res.equity_value
                = FRound(StatedEquity(recalc_dcf_loop(req, 5).last_net_income,
                                      recalc_dcf_loop(req, 5).pv_fcfs,
                                      req.exit_pe_multiple, req.cost_of_equity), 0)
          /\ FGt(req.base_diluted_shares, Zero)
                => res.intrinsic_value
                     = FRound(StatedPerShare(recalc_dcf_loop(req, 5).last_net_income,
                                             recalc_dcf_loop(req, 5).pv_fcfs,
                                             req.exit_pe_multiple, req.cost_of_equity,
                                             req.base_diluted_shares), 2)
    /\ ProjectionScenario =>
          /\ initial_projections_loop(req, 1).prev_rev = Dec(1331, -1)
          /\ FGt(res.iv, Zero)

\* the scenario of the specification was projected
C22_Witness ==
    /\ ProjectionScenario
    /\ initial_projections_loop(req, 1).prev_rev = Dec(1331, -1)
    /\ FGt(res.iv, Zero)

\* ------------------------------------------------------------------------
\* Degraded inputs of the recalculation endpoints
\* ------------------------------------------------------------------------

\* recalculate_dcf ended for a request whose six arrays have 5 values each
DcfRecalcOfFiveYears == op = "recalculate_dcf" /\ recalc_dcf_first_invalid(req) = 0

\* recalculate_ddm ended
DdmRecalcEnded == op = "recalculate_ddm"

\* C23: for every request whose arrays have length 5 recalculate_dcf returns
\* a response, and for every request recalculate_ddm returns a response: no
\* scalar value (zero shares, non-positive price, cost_of_equity = -1,
\* cost_of_equity <= growth) leads to a division by zero; a zero share count
\* yields intrinsic value 0 and a non-positive price yields upside 0.
C23_RecalculationNeverFatal ==
    /\ DcfRecalcOfFiveYears =>
          /\ res.status = 200
          /\ req.base_diluted_shares = Zero => res.intrinsic_value = Zero
          /\ FLe(req.current_price, Zero) => res.upside_downside = Zero
    /\ DdmRecalcEnded =>
          /\ res.status = 200
          /\ FLe(req.current_price, Zero)
                => res.ggm_upside_downside = Zero /\ res.ts_upside_downside = Zero

\* the same for the requests whose cost of equity is not -1
C23_NeverFatalUnlessDiscountFactorZero ==
    /\ DcfRecalcOfFiveYears /\ req.cost_of_equity # Dec(-1, 0) =>
          /\ res.status = 200
          /\ req.base_diluted_shares = Zero => res.intrinsic_value = Zero
          /\ FLe(req.current_price, Zero) => res.upside_downside = Zero
    /\ DdmRecalcEnded /\ req.cost_of_equity # Dec(-1, 0) =>
          /\ res.status = 200
          /\ FLe(req.current_price, Zero)
                => res.ggm_upside_downside = Zero /\ res.ts_upside_downside = Zero

\* a recalculation of five years with cost_of_equity = -1 ended in a
\* division by zero
C23_DcfDivisionByZero ==
    /\ DcfRecalcOfFiveYears /\ req.cost_of_equity = Dec(-1, 0)
    /\ res.status = 500 /\ res.raised = "ZeroDivisionError"

C23_DdmDivisionByZero ==
    /\ DdmRecalcEnded /\ req.cost_of_equity = Dec(-1, 0)
    /\ res.status = 500 /\ res.raised = "ZeroDivisionError"

\* ------------------------------------------------------------------------
\* The status of a request whose 10-K fetch failed
\* ------------------------------------------------------------------------

\* analyze_ticker ended for a request whose 10-K fetch raised
TenkFetchFailed == op = "analyze_ticker" /\ IsException(req.world.tenk)

\* the status stated for each type of exception of the 10-K fetch
StatedTenkStatus(kind) ==
    CASE kind = "ValueError" -> 404
      [] kind = "EnvironmentError" -> 500
      [] kind = "HTTPError" -> 502
      [] OTHER -> 500

\* C24: when the mandatory 10-K fetch fails, analyze_ticker fails the
\* request with a status determined by the exception type: ValueError gives
\* 404, EnvironmentError gives 500, requests.HTTPError gives 502, any other
\* exception gives 500; every requests.HTTPError of the SEC fetch gives 502.
C24_TenkErrorStatusByType ==
    TenkFetchFailed => res = [status |-> StatedTenkStatus(req.world.tenk.raised)]

\* a request whose 10-K fetch raised requests.HTTPError ended with status 500
C24_HttpErrorGives500 ==
    /\ TenkFetchFailed /\ req.world.tenk.raised = "HTTPError"
    /\ res = [status |-> 500]

\* the other exception types get the stated status
C24_StatusByTypeExceptHttpError ==
    TenkFetchFailed /\ req.world.tenk.raised # "HTTPError"
        => res = [status |-> StatedTenkStatus(req.world.tenk.raised)]

\* ------------------------------------------------------------------------
\* The order of the tasks of analyze_ticker
\* ------------------------------------------------------------------------

\* a request of analyze_ticker is followed task by task
AnalyzeInProgress == op \in {"analyze_ticker.await", "analyze_ticker"}

\* the handler returned a response or failed the request
AnalyzeResponded == op = "analyze_ticker"

Started(names) == {t \in names : req.task[t] # "not started"}

Ended(names) == {t \in names : req.task[t] = "ended"}

\* C25: the sector classification has ended before any Phase-1 task is
\* dispatched; no LLM task starts until all seven Phase-1 tasks have ended;
\* if the 10-K fetch failed no LLM task is ever started; the response is
\* composed only after both LLM tasks have ended, so that no task is still
\* running when the response is returned.
C25_AnalyzePhasesInOrder ==
    AnalyzeInProgress =>
        /\ Started(Phase1Tasks) # {} => Ended({"sector"}) = {"sector"}
        /\ Started(LlmTasks) # {} => Ended(Phase1Tasks) = Phase1Tasks
        /\ IsException(req.world.tenk) => Started(LlmTasks) = {}
        /\ AnalyzeResponded =>
              /\ Started(AnalyzeTasks) = Ended(AnalyzeTasks)
              /\ Ended({"sector"} \cup Phase1Tasks) = {"sector"} \cup Phase1Tasks
              /\ ~IsException(req.world.tenk) => Ended(LlmTasks) = LlmTasks

\* a response was composed after all ten tasks
C25_Witness ==
    /\ AnalyzeResponded /\ req.pc = "returned"
    /\ Ended(AnalyzeTasks) = AnalyzeTasks
    /\ res.status = 200

\* a request failed after the seven fetches, with no analysis started
C25_FailedBeforeAnalyses ==
    /\ AnalyzeResponded /\ req.pc = "raised"
    /\ Ended(AnalyzeTasks) = {"sector"} \cup Phase1Tasks

\* ------------------------------------------------------------------------
\* The entries of a comparable-company result
\* ------------------------------------------------------------------------

FetchCompsEnded == op = "fetch_comps"

\* the peer list fetch_comps was given or looked up
GivenPeerList ==
    IF req.finviz_peers # <<>> THEN req.finviz_peers
    ELSE IF req.finviz.ticker_peer.status = "ok" THEN req.finviz.ticker_peer.peers
    ELSE <<>>

RECURSIVE FirstPeers(_, _, _)
\* the first n tickers of a list that are not the target, in order
FirstPeers(list, target, n) ==
    IF list = <<>> \/ n = 0 THEN <<>>
    ELSE IF Head(list) = target THEN FirstPeers(Tail(list), target, n)
    ELSE <<Head(list)>> \o FirstPeers(Tail(list), target, n - 1)

\* the tickers whose fundamentals are requested: the target, then its peers
Candidates == <<Upper(req.ticker)>> \o FirstPeers(GivenPeerList, Upper(req.ticker), MAX_PEERS)

RECURSIVE Fetched(_, _)
\* the tickers of a list whose fundamentals request succeeds, in order
Fetched(list, table) ==
    IF list = <<>> THEN <<>>
    ELSE IF Head(list) \in DOMAIN table
    THEN <<Head(list)>> \o Fetched(Tail(list), table)
    ELSE Fetched(Tail(list), table)

TargetEntries == {i \in 1..Len(res.peers) : res.peers[i].is_target}

\* C26: for every peer list (given or looked up, with the target or
\* duplicates in it) and every pattern of failing fundamentals requests, the
\* result holds at most 1 + 8 entries; at most one entry is the target and
\* its ticker is the upper-cased target; no other entry has the target's
\* ticker; and a ticker whose request fails is skipped, the entries of the
\* other tickers staying in order, each built from its own fundamentals.
C26_CompsEntriesBounded ==
    FetchCompsEnded =>
        /\ Len(res.peers) <= 1 + MAX_PEERS
        /\ Cardinality(TargetEntries) <= 1
        /\ \A i \in 1..Len(res.peers) :
               res.peers[i].is_target <=> res.peers[i].ticker = Upper(req.ticker)
        /\ \A i \in TargetEntries : i = 1
        /\ Column(res.peers, "ticker") = Fetched(Candidates, req.finviz.ticker_fundament)
        /\ \A i \in 1..Len(res.peers) :
               res.peers[i]
                 = build_comp_entry_from_finviz(
                       res.peers[i].ticker,
                       req.finviz.ticker_fundament[res.peers[i].ticker],
                       res.peers[i].ticker = Upper(req.ticker))

\* a peer list with the target in it, one candidate whose request failed, and
\* at least two entries in the result
C26_Witness ==
    /\ FetchCompsEnded
    /\ \E i \in 1..Len(GivenPeerList) : GivenPeerList[i] = Upper(req.ticker)
    /\ \E i \in 1..Len(Candidates) : Candidates[i] \notin DOMAIN req.finviz.ticker_fundament
    /\ Len(res.peers) >= 2

\* a result of 1 + 8 entries from a list of more than 8 peers
C26_FullResult ==
    /\ FetchCompsEnded
    /\ Len(GivenPeerList) > MAX_PEERS
    /\ Len(res.peers) = 1 + MAX_PEERS

\* ------------------------------------------------------------------------
\* Unknown provider values in a comparable-company entry
\* ------------------------------------------------------------------------

\* the numeric fields of a CompEntry, the Finviz key each is read from and
\* the form of its text: a number, a percentage or a market capitalisation
CompFields ==
    { <<"market_cap", "Market Cap", "cap">>, <<"price", "Price", "number">>,
      <<"pe_ratio", "P/E", "number">>, <<"ev_to_ebitda", "EV/EBITDA", "number">>,
      <<"price_to_sales", "P/S", "number">>, <<"price_to_book", "P/B", "number">>,
      <<"peg_ratio", "PEG", "number">>, <<"debt_to_equity", "Debt/Eq", "number">>,
      <<"gross_margin", "Gross Margin", "percent">>,
      <<"operating_margin", "Oper. Margin", "percent">>,
      <<"net_margin", "Profit Margin", "percent">>, <<"roe", "ROE", "percent">>,
      <<"roic", "ROI", "percent">>, <<"revenue_growth", "Sales Q/Q", "percent">>,
      <<"eps_growth", "EPS Q/Q", "percent">>,
      <<"dividend_yield", "Dividend %", "percent">> }

\* the number a provider text stands for, if it stands for one
ProviderNumber(text, form) ==
    LET s == Without(Strip(text), {"%", ",", "$"})
    IN  IF form = "cap" /\ s # <<>> /\ s[Len(s)] \in {"T", "B", "M", "K"}
        THEN ParseFloatText(SubSeq(s, 1, Len(s) - 1))
        ELSE ParseFloatText(s)

\* the provider value is absent, a sentinel or unparsable text
ProviderUnknown(value, form) ==
    \/ ~value.some
    \/ Strip(value.text) \in NotAvailable
    \/ ~ProviderNumber(value.text, form).ok

\* the stored field is null for an unknown provider value, and a stored zero
\* comes from a provider value that parses to zero
NoFabricatedZero(stored, value, form) ==
    /\ ProviderUnknown(value, form) => stored = None
    /\ stored = Zero =>
          ~ProviderUnknown(value, form) /\ ProviderNumber(value.text, form).value = Zero

\* the fields of entry i of the result, among the given ones, obey that rule
EntryWithoutFabricatedZero(i, fields) ==
    \A f \in fields :
        NoFabricatedZero(res.peers[i][f[1]],
                         DictGet(req.finviz.ticker_fundament[res.peers[i].ticker], f[2]),
                         f[3])

\* C27: for every field of a CompEntry built from provider fundamentals,
\* when the provider value is absent or a sentinel (None, "-", "", "N/A",
\* unparsable text) the stored value is null, not 0; a stored 0 always comes
\* from a provider value that parses to zero.
C27_NoFieldFabricatesZero ==
    FetchCompsEnded =>
        \A i \in 1..Len(res.peers) : EntryWithoutFabricatedZero(i, CompFields)

\* the same for the fields other than market_cap and price
C27_RatiosNeverFabricateZero ==
    FetchCompsEnded =>
        \A i \in 1..Len(res.peers) :
            EntryWithoutFabricatedZero(
                i, {f \in CompFields : f[1] \notin {"market_cap", "price"}})

\* an entry whose provider row has no market capitalisation and no price
\* stores 0 for both
C27_ZeroFromAbsentValue ==
    /\ FetchCompsEnded
    /\ \E i \in 1..Len(res.peers) :
           /\ ~DictGet(req.finviz.ticker_fundament[res.peers[i].ticker], "Market Cap").some
           /\ ~DictGet(req.finviz.ticker_fundament[res.peers[i].ticker], "Price").some
           /\ res.peers[i].market_cap = Zero
           /\ res.peers[i].price = Zero

\* a stored zero that the provider reported
C27_ZeroFromProvider ==
    /\ FetchCompsEnded
    /\ \E i \in 1..Len(res.peers) :
           /\ res.peers[i].price_to_book = Zero
           /\ DictGet(req.finviz.ticker_fundament[res.peers[i].ticker], "P/B").text
                 = <<"0">>

\* ------------------------------------------------------------------------
\* Concurrent macro-rate lookups
\* ------------------------------------------------------------------------

\* two threads are about to delete the entry of the same key, both having
\* read it expired
BothFoundSameExpiredEntry ==
    \E t, u \in Threads :
        /\ t # u
        /\ thread[t].pc = "delete" /\ thread[u].pc = "delete"
        /\ thread[t].key = thread[u].key

\* the thread that is about to delete an entry still finds its key stored
DeleteFindsKey ==
    \A t \in Threads : thread[t].pc = "delete" => store[thread[t].key].present

\* C28: when the DCF and DDM worker threads call a macro-rate function
\* concurrently, for every interleaving of the cache's read, expiry check
\* and delete steps, both threads finding the same expired entry included,
\* each call returns a (value, source) pair and no exception escapes.
C28_ConcurrentLookupNeverFails ==
    /\ DeleteFindsKey
    /\ MacroCallEnded => res.raised = "None" /\ res.value # None /\ res.source # ""

\* a call that found the entry expired together with the other thread ended
\* in KeyError
C28_SecondDeleteRaised ==
    /\ MacroCallEnded
    /\ res.raised = "KeyError"
    /\ ~store[req.key].present

\* the calls that do not delete after the other thread return a pair
C28_PairUnlessKeyDeleted ==
    MacroCallEnded /\ res.raised # "KeyError" =>
        res.raised = "None" /\ res.value # None /\ res.source # ""

\* ------------------------------------------------------------------------
\* Recalculation from the reported values of a DCFResult
\* ------------------------------------------------------------------------

FiveCopies(x) == [i \in 1..PROJECTION_YEARS |-> x]

\* the recalculation request that repeats what a DCFResult reports
RequestOfReported(d) ==
    [base_revenue |-> d.actuals[Len(d.actuals)].revenue,
     base_diluted_shares |-> d.base_diluted_shares,
     interest_expense |-> d.base_interest_expense,
     growth_rates |-> FiveCopies(d.base_revenue_growth),
     op_margins |-> FiveCopies(d.base_op_margin),
     tax_rates |-> FiveCopies(d.base_tax_rate),
     capex_pcts |-> FiveCopies(d.base_capex_pct),
     da_pcts |-> FiveCopies(d.base_da_pct),
     shares_growths |-> FiveCopies(d.base_shares_growth),
     exit_pe_multiple |-> d.exit_pe_multiple,
     cost_of_equity |-> d.cost_of_equity,
     current_price |-> d.current_price]

\* the recalculation of the reported values returns the reported valuation
RecalculatesToReported(d, r) ==
    /\ r.status = 200
    /\ r.intrinsic_value = d.intrinsic_value
    /\ r.pv_fcfs = d.pv_fcfs
    /\ r.pv_terminal_value = d.pv_terminal_value
    /\ r.equity_value = d.equity_value

\* C29: recalculate_dcf called with five copies of each reported base
\* assumption, the reported interest expense, diluted shares, exit multiple,
\* cost of equity and price, and the last actual year's revenue returns the
\* intrinsic_value, pv_fcfs, pv_terminal_value and equity_value that the
\* DCFResult reports, and the reported equity_value equals the reported
\* pv_fcfs + pv_terminal_value.
C29_ReportedValuesRecalculate ==
    DcfValued =>
        /\ RecalculatesToReported(res, recalculate_dcf(RequestOfReported(res)))
        /\ res.equity_value = FAdd(res.pv_fcfs, res.pv_terminal_value)

\* the base assumptions of fetch_dcf before they are rounded for the result
UnroundedAssumptions ==
    dcf_base_assumptions(OrZero(req.quotes.quote.price), OrZero(req.quotes.quote.marketCap),
                         ResolvedSectorRules, res.actuals)

\* the CAPM rate of the request before it is rounded
UnroundedCostOfEquity ==
    FAdd(req.risk_free_rate.value,
         FMul(dcf_select_beta(req.sector_info, req.quotes.quote),
              req.equity_risk_premium.value))

\* the result reports every input of the valuation as it was used: rounding
\* changed none of them
ReportedAsUsed(d, v) ==
    /\ d.base_revenue_growth = v.base_revenue_growth
    /\ d.base_op_margin = v.base_op_margin
    /\ d.base_tax_rate = v.base_tax_rate
    /\ d.base_capex_pct = v.base_capex_pct
    /\ d.base_da_pct = v.base_da_pct
    /\ d.base_shares_growth = v.base_shares_growth
    /\ d.base_diluted_shares = v.base_diluted_shares
    /\ d.base_interest_expense = d.actuals[Len(d.actuals)].interest_expense
    /\ d.cost_of_equity = UnroundedCostOfEquity
    /\ d.current_price = OrZero(req.quotes.quote.price)

\* C29 amended: the recalculation of the reported values returns the
\* reported valuation whenever the result reports the inputs of the valuation
\* as they were used, that is, whenever rounding the assumptions (4
\* decimals), the interest expense and the shares (whole numbers), the cost of
\* equity (4 decimals) and the price (2 decimals) changed none of them; the
\* reported equity_value differs from the reported pv_fcfs +
\* pv_terminal_value by at most 1, each being rounded to a whole number.
C29_ExactlyReportedValuesRecalculate ==
    DcfValued =>
        /\ ReportedAsUsed(res, UnroundedAssumptions)
              => RecalculatesToReported(res, recalculate_dcf(RequestOfReported(res)))
        /\ FLe(FAbs(FSub(res.equity_value, FAdd(res.pv_fcfs, res.pv_terminal_value))), One)

\* a result that reports its inputs as they were used, with a valuation that
\* is not zero
C29_Witness ==
    /\ DcfValued
    /\ ReportedAsUsed(res, UnroundedAssumptions)
    /\ res.pv_terminal_value # Zero /\ res.intrinsic_value # Zero

\* a result whose reported tax rate was rounded recalculates to another
\* valuation
C29_RoundedInputChangesValuation ==
    /\ DcfValued
    /\ ~ReportedAsUsed(res, UnroundedAssumptions)
    /\ ~RecalculatesToReported(res, recalculate_dcf(RequestOfReported(res)))

\* a result whose equity value is not the sum of the two reported values
C29_SumOffByOne ==
    /\ DcfValued
    /\ res.equity_value # FAdd(res.pv_fcfs, res.pv_terminal_value)

\* ------------------------------------------------------------------------
\* A failed dividend-history request
\* ------------------------------------------------------------------------

\* fetch_ddm ended for a request whose dividends request raised after the
\* quote request had succeeded
DividendRequestFailed ==
    /\ op = "fetch_ddm"
    /\ req.api_key
    /\ req.quotes.status = "ok"
    /\ req.dividends.status # "ok"

\* the result is the one of the same request with no dividend records
SameAsWithoutRecords ==
    res = fetch_ddm([req EXCEPT !.dividends = [status |-> "ok", records |-> <<>>]])

\* fetch_ddm returned the non-payer result, which analyze_ticker reports as
\* ddm_available = false with a ddm_model payload
AbsorbedAsNonPayer ==
    /\ res.raised = "None"
    /\ ~res.pays_dividends
    /\ SameAsWithoutRecords
    /\ ~ddm_availability(res)
    /\ ddm_model_payload(res) # Null
    /\ ~ddm_model_payload(res).pays_dividends

C30_RaisedByIncomeRequest ==
    /\ DividendRequestFailed
    /\ FGt(OrZero(req.quotes.quote.price), Zero)
    /\ req.income.status = "HTTPError"
    /\ res.raised = "HTTPError"

====
